---- MODULE Spec2Model ----
(***************************************************************************)
(* golox: a single-pass bytecode compiler and stack VM for Lox.            *)
(*                                                                         *)
(* The model follows the pipeline of the sources: a byte-level Scanner     *)
(* (lox/scanner.go), the Pratt-parser Compiler that emits into a Chunk     *)
(* (lox/compiler.go, lox/chunk.go) and the Vm (lox/vm.go, the version with *)
(* the globals table).  Source texts are sequences of one-character        *)
(* strings; a lexeme is a sub-sequence of the source.  Indices into Go     *)
(* slices are kept 0-based in the state and shifted by one where a TLA+    *)
(* sequence is read.  A Go run-time panic (index out of range, failed type *)
(* assertion) is the outcome "crash": the process ends.                    *)
(***************************************************************************)
EXTENDS Integers, Sequences, FiniteSets, TLC

VARIABLES chunk, ip, stack, globals, pc, result, stdout, stderr, calls, src, compiled,
          osArgs, exit, compiler

vars == <<chunk, ip, stack, globals, pc, result, stdout, stderr, calls, src, compiled,
          osArgs, exit, compiler>>

(***************************************************************************)
(* Bounds of the exploration.                                              *)
(***************************************************************************)
\* Number of Interpret calls made on the one Vm (REPL lines).
MaxCalls == 2

(***************************************************************************)
(* lox/chunk.go                                                            *)
(***************************************************************************)
OpReturn == 0
OpConstant == 1
OpNegate == 2
OpAdd == 3
OpSubtract == 4
OpMultiply == 5
OpDivide == 6
OpNil == 7
OpTrue == 8
OpFalse == 9
OpNot == 10
OpEqual == 11
OpNotEqual == 12
OpGreater == 13
OpGreaterEqual == 14
OpLess == 15
OpLessEqual == 16
OpPrint == 17
OpPop == 18
OpDefineGlobal == 19
OpGetGlobal == 20
OpSetGlobal == 21
OpGetLocal == 22
OpSetLocal == 23
OpJumpIfFalse == 24
OpJump == 25
OpLoop == 26

\* The number of values of a Go byte: byte(x) keeps x modulo ByteRange.
ByteRange == 256

Byte(x) == x % ByteRange

NewChunk == [code |-> <<>>, constants |-> <<>>, lines |-> <<>>]

Write(ch, byte, line) ==
    [ch EXCEPT !.code = Append(@, byte), !.lines = Append(@, line)]

\* AddConstant returns the chunk with the value appended and its index.
AddConstant(ch, value) ==
    [chunk |-> [ch EXCEPT !.constants = Append(@, value)],
     index |-> Len(ch.constants)]

(***************************************************************************)
(* lox/value.go.  A NumberValue n/d is a float64 that is a small rational; *)
(* d = 0 stands for the IEEE values +Inf (n = 1), -Inf (n = -1), NaN       *)
(* (n = 0).                                                                *)
(***************************************************************************)
NilValue == [t |-> "nil"]

BoolValue(b) == [t |-> "bool", b |-> b]

StringValue(s) == [t |-> "string", s |-> s]

Abs(x) == IF x < 0 THEN -x ELSE x

RECURSIVE Gcd(_, _)
Gcd(a, b) == IF b = 0 THEN a ELSE Gcd(b, a % b)

Sign(x) == IF x < 0 THEN -1 ELSE IF x = 0 THEN 0 ELSE 1

\* The float64 n/d, in lowest terms with a positive denominator.
Ratio(n, d) ==
    IF d = 0 THEN [t |-> "number", n |-> Sign(n), d |-> 0]
    ELSE LET g == Gcd(Abs(n), Abs(d))
         IN  [t |-> "number", n |-> Sign(d) * (n \div g), d |-> Abs(d) \div g]

NumberValue(n) == Ratio(n, 1)

\* isTruthy with the number 0 falsy as well.
isTruthy_ZeroFalsy(v) ==
    CASE v.t = "bool" -> v.b
      [] v.t = "nil" -> FALSE
      [] v.t = "number" -> v.n # 0
      [] v.t = "string" -> TRUE

isTruthy(v) ==
    CASE v.t = "bool" -> v.b
      [] v.t = "nil" -> FALSE
      [] v.t = "number" -> TRUE
      [] v.t = "string" -> TRUE

(***************************************************************************)
(* lox/scanner.go                                                          *)
(***************************************************************************)
Digits == {"0", "1", "2", "3", "4", "5", "6", "7", "8", "9"}

Letters ==
    {"a", "b", "c", "d", "e", "f", "g", "h", "i", "j", "k", "l", "m",
     "n", "o", "p", "q", "r", "s", "t", "u", "v", "w", "x", "y", "z",
     "A", "B", "C", "D", "E", "F", "G", "H", "I", "J", "K", "L", "M",
     "N", "O", "P", "Q", "R", "S", "T", "U", "V", "W", "X", "Y", "Z", "_"}

isDigit(c) == c \in Digits

isAlpha(c) == c \in Letters

\* The byte '\000' that peek and peekNext return at the end of the source.
NUL == "NUL"

\* Token{}: the zero value (TokenLeftParen is the first TokenType).
ZeroToken == [tokenType |-> "TokenLeftParen", lexeme |-> <<>>, line |-> 0]

NewScanner(source) ==
    [source |-> source, start |-> 0, current |-> 0, line |-> 1, crash |-> FALSE]

isAtEnd(sc) == sc.current >= Len(sc.source)

Scanner_peek(sc) == IF isAtEnd(sc) THEN NUL ELSE sc.source[sc.current + 1]

\* peekNext reads source[current+1] whenever current itself is in range:
\* with current on the last byte the read is out of range and Go panics.
peekNextPanics(sc) == ~isAtEnd(sc) /\ sc.current + 1 >= Len(sc.source)

peekNext(sc) == IF isAtEnd(sc) THEN NUL ELSE sc.source[sc.current + 2]

Scanner_advance(sc) == [sc EXCEPT !.current = @ + 1]

Scanner_match(sc, expected) ==
    IF isAtEnd(sc) THEN [sc |-> sc, ok |-> FALSE]
    ELSE IF sc.source[sc.current + 1] # expected THEN [sc |-> sc, ok |-> FALSE]
    ELSE [sc |-> Scanner_advance(sc), ok |-> TRUE]

makeToken(sc, tokenType) ==
    [sc |-> sc,
     tok |-> [tokenType |-> tokenType,
              lexeme |-> SubSeq(sc.source, sc.start + 1, sc.current),
              line |-> sc.line]]

errorToken(sc, message) ==
    [sc |-> sc,
     tok |-> [tokenType |-> "TokenError", lexeme |-> message, line |-> sc.line]]

\* The token returned where the Go code has panicked: nothing reads it.
crashToken(sc) ==
    [sc |-> [sc EXCEPT !.crash = TRUE],
     tok |-> [tokenType |-> "TokenEOF", lexeme |-> <<>>, line |-> sc.line]]

RECURSIVE skipLineComment(_)
skipLineComment(sc) ==
    IF Scanner_peek(sc) # "\n" /\ ~isAtEnd(sc)
    THEN skipLineComment(Scanner_advance(sc))
    ELSE sc

RECURSIVE skipWhitespace(_)
skipWhitespace(sc) ==
    LET c == Scanner_peek(sc)
    IN  CASE c \in {" ", "\r", "\t"} -> skipWhitespace(Scanner_advance(sc))
          [] c = "\n" ->
                skipWhitespace(Scanner_advance([sc EXCEPT !.line = @ + 1]))
          [] c = "/" ->
                IF peekNextPanics(sc) THEN [sc EXCEPT !.crash = TRUE]
                ELSE IF peekNext(sc) = "/"
                     THEN skipWhitespace(skipLineComment(sc))
                     ELSE sc
          [] OTHER -> sc

RECURSIVE stringBody(_)
stringBody(sc) ==
    IF Scanner_peek(sc) # "\"" /\ ~isAtEnd(sc)
    THEN stringBody(Scanner_advance(
             IF Scanner_peek(sc) = "\n" THEN [sc EXCEPT !.line = @ + 1] ELSE sc))
    ELSE sc

\* Scanner.string after its loop.
stringEnd(s1) ==
    IF isAtEnd(s1) THEN errorToken(s1, "Unterminated string.")
    ELSE makeToken(Scanner_advance(s1), "TokenString")

Scanner_string(sc) == stringEnd(stringBody(sc))

RECURSIVE digitRun(_)
digitRun(sc) ==
    IF isDigit(Scanner_peek(sc)) THEN digitRun(Scanner_advance(sc)) ELSE sc

\* Scanner.number after its first loop: the optional fraction.
numberFraction(s1) ==
    IF Scanner_peek(s1) = "."
    THEN IF peekNextPanics(s1) THEN crashToken(s1)
         ELSE IF isDigit(peekNext(s1))
              THEN makeToken(digitRun(Scanner_advance(s1)), "TokenNumber")
              ELSE makeToken(s1, "TokenNumber")
    ELSE makeToken(s1, "TokenNumber")

Scanner_number(sc) == numberFraction(digitRun(sc))

RECURSIVE identifierRun(_)
identifierRun(sc) ==
    IF isAlpha(Scanner_peek(sc)) \/ isDigit(Scanner_peek(sc))
    THEN identifierRun(Scanner_advance(sc))
    ELSE sc

\* The switch of Scanner.identifier on the text scanned.
identifierType(id) ==
    CASE id = <<"a", "n", "d">> -> "TokenAnd"
      [] id = <<"c", "l", "a", "s", "s">> -> "TokenClass"
      [] id = <<"e", "l", "s", "e">> -> "TokenElse"
      [] id = <<"f", "a", "l", "s", "e">> -> "TokenFalse"
      [] id = <<"f", "o", "r">> -> "TokenFor"
      [] id = <<"f", "u", "n">> -> "TokenFun"
      [] id = <<"i", "f">> -> "TokenIf"
      [] id = <<"n", "i", "l">> -> "TokenNil"
      [] id = <<"o", "r">> -> "TokenOr"
      [] id = <<"p", "r", "i", "n", "t">> -> "TokenPrint"
      [] id = <<"r", "e", "t", "u", "r", "n">> -> "TokenReturn"
      [] id = <<"s", "u", "p", "e", "r">> -> "TokenSuper"
      [] id = <<"t", "h", "i", "s">> -> "TokenThis"
      [] id = <<"t", "r", "u", "e">> -> "TokenTrue"
      [] id = <<"v", "a", "r">> -> "TokenVar"
      [] id = <<"w", "h", "i", "l", "e">> -> "TokenWhile"
      [] OTHER -> "TokenIdentifier"

\* Scanner.identifier after its loop.
identifierEnd(s1) ==
    makeToken(s1, identifierType(SubSeq(s1.source, s1.start + 1, s1.current)))

identifier(sc) == identifierEnd(identifierRun(sc))

\* case '!', '=', '<', '>': second is the type when '=' follows.
matchEqual(m, second, first) ==
    IF m.ok THEN makeToken(m.sc, second) ELSE makeToken(m.sc, first)

\* scanToken from c := scanner.advance() on; sc is the scanner after it.
scanChar(sc, c) ==
    IF isAlpha(c) THEN identifier(sc)
    ELSE IF isDigit(c) THEN Scanner_number(sc)
    ELSE CASE c = "(" -> makeToken(sc, "TokenLeftParen")
           [] c = ")" -> makeToken(sc, "TokenRightParen")
           [] c = "{" -> makeToken(sc, "TokenLeftBrace")
           [] c = "}" -> makeToken(sc, "TokenRightBrace")
           [] c = ";" -> makeToken(sc, "TokenSemicolon")
           [] c = "," -> makeToken(sc, "TokenComma")
           [] c = "." -> makeToken(sc, "TokenDot")
           [] c = "-" -> makeToken(sc, "TokenMinus")
           [] c = "+" -> makeToken(sc, "TokenPlus")
           [] c = "/" -> makeToken(sc, "TokenSlash")
           [] c = "*" -> makeToken(sc, "TokenStar")
           [] c = "!" -> matchEqual(Scanner_match(sc, "="), "TokenBangEqual", "TokenBang")
           [] c = "=" -> matchEqual(Scanner_match(sc, "="), "TokenEqualEqual", "TokenEqual")
           [] c = "<" -> matchEqual(Scanner_match(sc, "="), "TokenLessEqual", "TokenLess")
           [] c = ">" ->
                 matchEqual(Scanner_match(sc, "="), "TokenGreaterEqual", "TokenGreater")
           [] c = "\"" -> Scanner_string(sc)
           [] OTHER -> errorToken(sc, "Unexpected character.")

\* scanToken after skipWhitespace; w is the scanner after it.
scanStart(w) ==
    IF w.crash THEN crashToken(w)
    ELSE IF isAtEnd(w) THEN makeToken([w EXCEPT !.start = w.current], "TokenEOF")
    ELSE scanChar(Scanner_advance([w EXCEPT !.start = w.current]),
                  w.source[w.current + 1])

\* A scanner that has panicked scans nothing more.
scanToken(sc0) ==
    IF sc0.crash THEN crashToken(sc0) ELSE scanStart(skipWhitespace(sc0))

(***************************************************************************)
(* lox/compiler.go.  A Compiler is a record of the struct's fields and of  *)
(* three observations of its run: diag, the diagnostics written to         *)
(* standard error; crash, set when the scanner has panicked; truncated,    *)
(* set when a constant index did not fit the operand byte it was emitted   *)
(* as; selfInit, set when resolveLocal met a local of depth -1.            *)
(***************************************************************************)
PrecedenceNone == 0
PrecedenceAssignment == 1
PrecedenceOr == 2
PrecedenceAnd == 3
PrecedenceEquality == 4
PrecedenceComparison == 5
PrecedenceTerm == 6
PrecedenceFactor == 7
PrecedenceUnary == 8
PrecedenceCall == 9
PrecedencePrimary == 10

NewCompiler(source, ch) ==
    [chunk |-> ch, scanner |-> NewScanner(source), previous |-> ZeroToken,
     current |-> ZeroToken, hadError |-> FALSE, panicMode |-> FALSE,
     locals |-> <<>>, scopeDepth |-> 0,
     diag |-> <<>>, crash |-> FALSE, truncated |-> FALSE, selfInit |-> FALSE]

emitByte(c, byte) == [c EXCEPT !.chunk = Write(@, byte, c.previous.line)]

emitBytes(c, byte1, byte2) == emitByte(emitByte(c, byte1), byte2)

emitReturn(c) == emitByte(c, OpReturn)

\* end that emits no OpReturn.
end_NoReturn(c) == c

end(c) == emitReturn(c)

makeConstant(c, value) ==
    LET r == AddConstant(c.chunk, value)
    IN  [c |-> [c EXCEPT !.chunk = r.chunk], index |-> r.index]

\* op followed by byte(index), index being an index of the constant pool.
emitConstantOperand(c, op, index) ==
    [emitBytes(c, op, Byte(index)) EXCEPT !.truncated = @ \/ Byte(index) # index]

emitConstant(c, value) ==
    LET r == makeConstant(c, value)
    IN  emitConstantOperand(r.c, OpConstant, r.index)

\* errorAt that reports every error, panic mode or not.
errorAt_Loud(c, token, message) ==
    [c EXCEPT !.panicMode = TRUE,
              !.hadError = TRUE,
              !.diag = Append(@, [kind |-> "compile_error",
                                  line |-> token.line,
                                  at |-> CASE token.tokenType = "TokenEOF" -> "end"
                                           [] token.tokenType = "TokenError" -> "nothing"
                                           [] OTHER -> "lexeme",
                                  lexeme |-> IF token.tokenType \in {"TokenEOF", "TokenError"}
                                             THEN <<>> ELSE token.lexeme,
                                  message |-> message])]

\* errorAt that writes the diagnostic but leaves hadError alone.
errorAt_NoFlag(c, token, message) ==
    IF c.panicMode THEN c
    ELSE [c EXCEPT !.panicMode = TRUE,
                   !.diag = Append(@, [kind |-> "compile_error",
                                       line |-> token.line,
                                       at |-> "lexeme",
                                       lexeme |-> token.lexeme,
                                       message |-> message])]

errorAt(c, token, message) ==
    IF c.panicMode THEN c
    ELSE [c EXCEPT !.panicMode = TRUE,
                   !.hadError = TRUE,
                   !.diag = Append(@, [kind |-> "compile_error",
                                       line |-> token.line,
                                       at |-> CASE token.tokenType = "TokenEOF" -> "end"
                                                [] token.tokenType = "TokenError" -> "nothing"
                                                [] OTHER -> "lexeme",
                                       lexeme |-> IF token.tokenType \in {"TokenEOF", "TokenError"}
                                                  THEN <<>> ELSE token.lexeme,
                                       message |-> message])]

errorAtCurrent(c, message) == errorAt(c, c.current, message)

error(c, message) == errorAt(c, c.previous, message)

RECURSIVE advanceLoop(_)

\* compiler.current = compiler.scanner.scanToken(), r being what it returned.
setCurrent(c, r) ==
    [c EXCEPT !.scanner = r.sc, !.current = r.tok, !.crash = @ \/ r.sc.crash]

\* The body of the loop of advance after the scan.
advanceScanned(c1) ==
    IF c1.current.tokenType # "TokenError" THEN c1
    ELSE advanceLoop(errorAtCurrent(c1, c1.current.lexeme))

advanceLoop(c) == advanceScanned(setCurrent(c, scanToken(c.scanner)))

advance(c) == advanceLoop([c EXCEPT !.previous = c.current])

consume(c, tokenType, message) ==
    IF c.current.tokenType = tokenType THEN advance(c)
    ELSE errorAtCurrent(c, message)

check(c, tokenType) == c.current.tokenType = tokenType

match(c, tokenType) ==
    IF ~check(c, tokenType) THEN [c |-> c, ok |-> FALSE]
    ELSE [c |-> advance(c), ok |-> TRUE]

SyncTokens ==
    {"TokenClass", "TokenFun", "TokenVar", "TokenFor", "TokenIf", "TokenWhile",
     "TokenPrint", "TokenReturn"}

RECURSIVE synchronizeLoop(_)
synchronizeLoop(c) ==
    IF c.current.tokenType # "TokenEOF"
    THEN IF c.previous.tokenType = "TokenSemicolon" THEN c
         ELSE IF c.current.tokenType \in SyncTokens THEN c
         ELSE synchronizeLoop(advance(c))
    ELSE c

synchronize(c) == synchronizeLoop([c EXCEPT !.panicMode = FALSE])

addLocal(c, name) ==
    [c EXCEPT !.locals = Append(@, [name |-> name, depth |-> -1])]

\* The loop of declareVariable, from local i (0-based) down to local 0: it
\* breaks at the first local of an enclosing scope and reports a local of the
\* same name met before that (a second report is silent: panic mode).
declareVariableLoop(c, name, i) ==
    LET outer == {j \in 0..i : /\ c.locals[j + 1].depth # -1
                               /\ c.locals[j + 1].depth < c.scopeDepth}
        low == IF outer = {} THEN 0
               ELSE (CHOOSE j \in outer : \A k \in outer : k <= j) + 1
    IN  IF \E j \in low..i : name.lexeme = c.locals[j + 1].name.lexeme
        THEN error(c, "Already a variable with this name in this scope.")
        ELSE c

RECURSIVE declareVariableAll(_, _, _)
declareVariableAll(c, name, i) ==
    IF i < 0 THEN c
    ELSE declareVariableAll(
             IF name.lexeme = c.locals[i + 1].name.lexeme
             THEN error(c, "Already a variable with this name in this scope.")
             ELSE c,
             name, i - 1)

\* declareVariable that compares with the locals of every enclosing scope.
declareVariable_AllScopes(c) ==
    IF c.scopeDepth = 0 THEN c
    ELSE addLocal(declareVariableAll(c, c.previous, Len(c.locals) - 1), c.previous)

declareVariable(c) ==
    IF c.scopeDepth = 0 THEN c
    ELSE addLocal(declareVariableLoop(c, c.previous, Len(c.locals) - 1), c.previous)

identifierConstant(c, token) == makeConstant(c, StringValue(token.lexeme))

\* parseVariable after declareVariable.
parseVariableIndex(c1) ==
    IF c1.scopeDepth > 0 THEN [c |-> c1, index |-> 0]
    ELSE identifierConstant(c1, c1.previous)

parseVariable(c, errorMessage) ==
    parseVariableIndex(declareVariable(consume(c, "TokenIdentifier", errorMessage)))

\* markInitialized that leaves the local at depth -1.
markInitialized_Never(c) == c

markInitialized(c) ==
    [c EXCEPT !.locals[Len(c.locals)].depth = c.scopeDepth]

defineVariable(c, global) ==
    IF c.scopeDepth > 0 THEN markInitialized(c)
    ELSE emitConstantOperand(c, OpDefineGlobal, global)

beginScope(c) == [c EXCEPT !.scopeDepth = @ + 1]

\* The loop of endScope: the locals at the end of the list that are deeper
\* than scopeDepth are removed, with one emitByte(OpPop) for each.
endScopeLoop(c) ==
    LET total == Len(c.locals)
        kept == CHOOSE j \in 0..total :
                    /\ \A k \in j + 1..total : c.locals[k].depth > c.scopeDepth
                    /\ j > 0 => c.locals[j].depth <= c.scopeDepth
    IN  [c EXCEPT !.locals = SubSeq(@, 1, kept),
                  !.chunk.code = @ \o [k \in 1..total - kept |-> OpPop],
                  !.chunk.lines = @ \o [k \in 1..total - kept |-> c.previous.line]]

\* endScope that leaves the scope without discarding its locals.
endScope_KeepsLocals(c) == [c EXCEPT !.scopeDepth = @ - 1]

endScope(c) == endScopeLoop([c EXCEPT !.scopeDepth = @ - 1])

\* The loop of resolveLocal: the index found, or -1.
RECURSIVE resolveLocalLoop(_, _, _)
resolveLocalLoop(c, token, i) ==
    IF i < 0 THEN [c |-> c, index |-> -1]
    ELSE LET local == c.locals[i + 1]
         IN  IF local.name.lexeme = token.lexeme
             THEN [c |-> IF local.depth = -1
                         THEN [error(c, "Cannot read local variable in its own initializer.")
                                  EXCEPT !.selfInit = TRUE]
                         ELSE c,
                   index |-> i]
             ELSE resolveLocalLoop(c, token, i - 1)

RECURSIVE resolveLocalUp(_, _, _)
resolveLocalUp(c, token, i) ==
    IF i >= Len(c.locals) THEN [c |-> c, index |-> -1]
    ELSE IF c.locals[i + 1].name.lexeme = token.lexeme
         THEN [c |-> c, index |-> i]
         ELSE resolveLocalUp(c, token, i + 1)

\* resolveLocal that takes the oldest local of the name, not the newest.
resolveLocal_Oldest(c, token) == resolveLocalUp(c, token, 0)

resolveLocal(c, token) == resolveLocalLoop(c, token, Len(c.locals) - 1)

NoRule == [prefix |-> "nil", infix |-> "nil", precedence |-> PrecedenceNone]

getRule(tokenType) ==
    CASE tokenType = "TokenLeftParen" ->
            [prefix |-> "grouping", infix |-> "nil", precedence |-> PrecedenceNone]
      [] tokenType = "TokenMinus" ->
            [prefix |-> "unary", infix |-> "binary", precedence |-> PrecedenceTerm]
      [] tokenType = "TokenPlus" ->
            [prefix |-> "nil", infix |-> "binary", precedence |-> PrecedenceTerm]
      [] tokenType \in {"TokenSlash", "TokenStar"} ->
            [prefix |-> "nil", infix |-> "binary", precedence |-> PrecedenceFactor]
      [] tokenType = "TokenBang" ->
            [prefix |-> "unary", infix |-> "nil", precedence |-> PrecedenceNone]
      [] tokenType \in {"TokenBangEqual", "TokenEqualEqual"} ->
            [prefix |-> "nil", infix |-> "binary", precedence |-> PrecedenceEquality]
      [] tokenType \in {"TokenGreater", "TokenGreaterEqual", "TokenLess",
                        "TokenLessEqual"} ->
            [prefix |-> "nil", infix |-> "binary", precedence |-> PrecedenceComparison]
      [] tokenType = "TokenIdentifier" ->
            [prefix |-> "variable", infix |-> "nil", precedence |-> PrecedenceNone]
      [] tokenType = "TokenString" ->
            [prefix |-> "string", infix |-> "nil", precedence |-> PrecedenceNone]
      [] tokenType = "TokenNumber" ->
            [prefix |-> "number", infix |-> "nil", precedence |-> PrecedenceNone]
      [] tokenType \in {"TokenFalse", "TokenNil", "TokenTrue"} ->
            [prefix |-> "literal", infix |-> "nil", precedence |-> PrecedenceNone]
      [] OTHER -> NoRule

DigitValue(ch) ==
    CASE ch = "0" -> 0 [] ch = "1" -> 1 [] ch = "2" -> 2 [] ch = "3" -> 3
      [] ch = "4" -> 4 [] ch = "5" -> 5 [] ch = "6" -> 6 [] ch = "7" -> 7
      [] ch = "8" -> 8 [] ch = "9" -> 9

RECURSIVE Pow10(_)
Pow10(k) == IF k = 0 THEN 1 ELSE 10 * Pow10(k - 1)

\* The digits of a lexeme read as a decimal integer, the dot left out.
RECURSIVE DigitsValue(_, _)
DigitsValue(lexeme, acc) ==
    IF lexeme = <<>> THEN acc
    ELSE DigitsValue(Tail(lexeme),
                     IF Head(lexeme) = "." THEN acc
                     ELSE 10 * acc + DigitValue(Head(lexeme)))

\* strconv.ParseFloat of a NUMBER lexeme: digits, or digits '.' digits.
ParseFloat(lexeme) ==
    LET dots == {i \in 1..Len(lexeme) : lexeme[i] = "."}
        frac == IF dots = {} THEN 0
                ELSE Len(lexeme) - (CHOOSE i \in dots : TRUE)
    IN  Ratio(DigitsValue(lexeme, 0), Pow10(frac))

number(c) == emitConstant(c, ParseFloat(c.previous.lexeme))

string(c) ==
    LET lexeme == c.previous.lexeme
    IN  emitConstant(c, StringValue(SubSeq(lexeme, 2, Len(lexeme) - 1)))

literal(c) ==
    CASE c.previous.tokenType = "TokenFalse" -> emitByte(c, OpFalse)
      [] c.previous.tokenType = "TokenTrue" -> emitByte(c, OpTrue)
      [] c.previous.tokenType = "TokenNil" -> emitByte(c, OpNil)
      [] OTHER -> c

BinaryOpcode(operatorType) ==
    CASE operatorType = "TokenPlus" -> OpAdd
      [] operatorType = "TokenMinus" -> OpSubtract
      [] operatorType = "TokenStar" -> OpMultiply
      [] operatorType = "TokenSlash" -> OpDivide
      [] operatorType = "TokenBangEqual" -> OpNotEqual
      [] operatorType = "TokenEqualEqual" -> OpEqual
      [] operatorType = "TokenGreater" -> OpGreater
      [] operatorType = "TokenGreaterEqual" -> OpGreaterEqual
      [] operatorType = "TokenLess" -> OpLess
      [] operatorType = "TokenLessEqual" -> OpLessEqual

RECURSIVE parsePrecedence(_, _)
RECURSIVE infixLoop(_, _, _)
RECURSIVE declaration(_)

expression(c) == parsePrecedence(c, PrecedenceAssignment)

grouping(c) ==
    consume(expression(c), "TokenRightParen", "Expect ')' after expression.")

\* The switch of unary, c1 being the compiler after the operand.
unaryEmit(c1, operatorType) ==
    CASE operatorType = "TokenMinus" -> emitByte(c1, OpNegate)
      [] operatorType = "TokenBang" -> emitByte(c1, OpNot)
      [] OTHER -> c1

unary(c) == unaryEmit(parsePrecedence(c, PrecedenceUnary), c.previous.tokenType)

\* binary that parses its right operand at the operator's own precedence.
binary_RightAssociative(c) ==
    emitByte(parsePrecedence(c, getRule(c.previous.tokenType).precedence),
             BinaryOpcode(c.previous.tokenType))

binary(c) ==
    emitByte(parsePrecedence(c, getRule(c.previous.tokenType).precedence + 1),
             BinaryOpcode(c.previous.tokenType))

\* namedVariable: arg, getOp and setOp, r being what resolveLocal returned.
namedVariableArg(r, g) ==
    IF r.index # -1
    THEN [c |-> r.c, index |-> r.index, isLocal |-> TRUE,
          getOp |-> OpGetLocal, setOp |-> OpSetLocal]
    ELSE [c |-> g.c, index |-> g.index, isLocal |-> FALSE,
          getOp |-> OpGetGlobal, setOp |-> OpSetGlobal]

\* emitBytes(op, byte(arg)).
emitArg(c, op, a) ==
    IF a.isLocal THEN emitBytes(c, op, Byte(a.index))
    ELSE emitConstantOperand(c, op, a.index)

\* The if of namedVariable, m being canAssign && match(TokenEqual).
namedVariableEmit(a, m) ==
    IF m.ok THEN emitArg(expression(m.c), a.setOp, a)
    ELSE emitArg(m.c, a.getOp, a)

canAssignMatch(c, canAssign) ==
    IF canAssign THEN match(c, "TokenEqual") ELSE [c |-> c, ok |-> FALSE]

namedVariableOps(a, canAssign) == namedVariableEmit(a, canAssignMatch(a.c, canAssign))

namedVariableResolved(r, token, canAssign) ==
    namedVariableOps(namedVariableArg(r, IF r.index # -1 THEN r
                                         ELSE identifierConstant(r.c, token)),
                     canAssign)

namedVariable(c, token, canAssign) ==
    namedVariableResolved(resolveLocal(c, token), token, canAssign)

variable(c, canAssign) == namedVariable(c, c.previous, canAssign)

\* The call prefixRule(canAssign) of parsePrecedence.
prefixRule(c, rule, canAssign) ==
    CASE rule = "grouping" -> grouping(c)
      [] rule = "unary" -> unary(c)
      [] rule = "variable" -> variable(c, canAssign)
      [] rule = "string" -> string(c)
      [] rule = "number" -> number(c)
      [] rule = "literal" -> literal(c)

\* The call infixRule(canAssign) of parsePrecedence; a nil rule panics.
infixRule(c) ==
    IF getRule(c.previous.tokenType).infix = "binary" THEN binary(c)
    ELSE [c EXCEPT !.crash = TRUE]

infixLoop(c, precedence, canAssign) ==
    IF ~c.crash /\ precedence <= getRule(c.current.tokenType).precedence
    THEN infixLoop(infixRule(advance(c)), precedence, canAssign)
    ELSE c

\* The last if of parsePrecedence without the report.
invalidTarget_Silent(m) == m.c

\* The last if of parsePrecedence, m being canAssign && match(TokenEqual).
invalidTarget(m) ==
    IF m.ok THEN error(m.c, "Invalid assignment target.") ELSE m.c

\* parsePrecedence after its advance.
parsePrefix(c, precedence, canAssign) ==
    IF getRule(c.previous.tokenType).prefix = "nil"
    THEN error(c, "Expect expression.")
    ELSE invalidTarget(canAssignMatch(
             infixLoop(prefixRule(c, getRule(c.previous.tokenType).prefix, canAssign),
                       precedence, canAssign),
             canAssign))

parsePrecedence(c0, precedence) ==
    parsePrefix(advance(c0), precedence, precedence <= PrecedenceAssignment)

\* The if of varDeclaration, m being match(TokenEqual).
varInitializer(m) == IF m.ok THEN expression(m.c) ELSE emitByte(m.c, OpNil)

\* varDeclaration after parseVariable.
varDeclarationParsed(pv) ==
    defineVariable(consume(varInitializer(match(pv.c, "TokenEqual")), "TokenSemicolon",
                           "Expect ';' after variable declaration."),
                   pv.index)

varDeclaration(c) == varDeclarationParsed(parseVariable(c, "Expect variable name."))

printStatement(c) ==
    emitByte(consume(expression(c), "TokenSemicolon", "Expect ';' after value."),
             OpPrint)

\* expressionStatement that leaves the value of the expression on the stack.
expressionStatement_NoPop(c) ==
    consume(expression(c), "TokenSemicolon", "Expect ';' after expression.")

expressionStatement(c) ==
    emitByte(consume(expression(c), "TokenSemicolon", "Expect ';' after expression."),
             OpPop)

RECURSIVE blockLoop(_)
blockLoop(c) ==
    IF ~check(c, "TokenRightBrace") /\ ~check(c, "TokenEOF")
    THEN blockLoop(declaration(c))
    ELSE c

block(c) == consume(blockLoop(c), "TokenRightBrace", "Expect '}' after block.")

\* statement from its second if, b being match(TokenLeftBrace).
statementBlock(b) ==
    IF b.ok THEN endScope(block(beginScope(b.c))) ELSE expressionStatement(b.c)

\* statement from its first if, p being match(TokenPrint).
statementPrint(p) ==
    IF p.ok THEN printStatement(p.c) ELSE statementBlock(match(p.c, "TokenLeftBrace"))

statement(c) == statementPrint(match(c, "TokenPrint"))

\* The first if of declaration, m being match(TokenVar).
declarationKind(m) == IF m.ok THEN varDeclaration(m.c) ELSE statement(m.c)

\* The second if of declaration.
declarationSync(c1) == IF c1.panicMode THEN synchronize(c1) ELSE c1

declaration(c) == declarationSync(declarationKind(match(c, "TokenVar")))

RECURSIVE compileLoop(_)

\* The loop of compile, m being match(TokenEOF).
compileLoopBody(m) == IF m.ok THEN m.c ELSE compileLoop(declaration(m.c))

compileLoop(c) == compileLoopBody(match(c, "TokenEOF"))

\* compile: the compiler after its run; it returns ~hadError.
compile(c) == end(compileLoop(advance(c)))

(***************************************************************************)
(* lox/vm.go: arithmetic of NumberValue (float64) on the rationals n/d.    *)
(***************************************************************************)
IsNaN(v) == v.d = 0 /\ v.n = 0

IsInf(v) == v.d = 0 /\ v.n # 0

NaN == Ratio(0, 0)

Negate(a) == Ratio(-a.n, a.d)

NumAdd(a, b) ==
    CASE IsNaN(a) \/ IsNaN(b) -> NaN
      [] IsInf(a) /\ IsInf(b) -> IF a.n = b.n THEN a ELSE NaN
      [] IsInf(a) -> a
      [] IsInf(b) -> b
      [] OTHER -> Ratio(a.n * b.d + b.n * a.d, a.d * b.d)

NumSubtract(a, b) == NumAdd(a, Negate(b))

NumMultiply(a, b) ==
    CASE IsNaN(a) \/ IsNaN(b) -> NaN
      [] IsInf(a) \/ IsInf(b) -> Ratio(Sign(a.n) * Sign(b.n), 0)
      [] OTHER -> Ratio(a.n * b.n, a.d * b.d)

NumDivide(a, b) ==
    CASE IsNaN(a) \/ IsNaN(b) -> NaN
      [] IsInf(a) /\ IsInf(b) -> NaN
      [] IsInf(a) -> Ratio(a.n * (IF b.n < 0 THEN -1 ELSE 1), 0)
      [] IsInf(b) -> Ratio(0, 1)
      [] OTHER -> Ratio(a.n * b.d, a.d * b.n)

NumLess(a, b) ==
    CASE IsNaN(a) \/ IsNaN(b) -> FALSE
      [] IsInf(a) /\ IsInf(b) -> a.n < b.n
      [] OTHER -> a.n * b.d < b.n * a.d

NumEqual(a, b) == ~IsNaN(a) /\ ~IsNaN(b) /\ a = b

\* == that takes nil and false for equal.
ValuesEqual_Falsy(a, b) ==
    IF a.t # b.t THEN {a, b} = {[t |-> "nil"], [t |-> "bool", b |-> FALSE]}
    ELSE IF a.t = "number" THEN NumEqual(a, b)
    ELSE a = b

\* Go's == on two Values: the same dynamic type and equal contents.
ValuesEqual(a, b) ==
    IF a.t # b.t THEN FALSE
    ELSE IF a.t = "number" THEN NumEqual(a, b)
    ELSE a = b

(***************************************************************************)
(* lox/vm.go: the Vm.  An operation on the Vm yields a record of the Vm    *)
(* after it, what it wrote to standard output and standard error, and the  *)
(* status of run: "continue" (next iteration), an InterpretResult that run *)
(* returns, or "crash" where Go panics.                                    *)
(***************************************************************************)
NewVm == [chunk |-> NewChunk, ip |-> 0, stack |-> <<>>, globals |-> <<>>]

\* resetVm that also forgets the globals.
resetVm_Globals(vm) ==
    [vm EXCEPT !.stack = <<>>, !.chunk = NewChunk, !.ip = 0, !.globals = NewVm.globals]

resetVm(vm) == [vm EXCEPT !.stack = <<>>, !.chunk = NewChunk, !.ip = 0]

Continue(vm) == [vm |-> vm, status |-> "continue", out |-> <<>>, err |-> <<>>]

Crash(vm) == [vm |-> vm, status |-> "crash", out |-> <<>>, err |-> <<>>]

push(vm, value) == [vm EXCEPT !.stack = Append(@, value)]

\* pop, peek: callers check the height first; a short stack panics.
Height(vm) == Len(vm.stack)

pop(vm) == [vm EXCEPT !.stack = SubSeq(@, 1, Len(@) - 1)]

peek(vm, distance) == vm.stack[Len(vm.stack) - distance]

CanReadByte(vm) == vm.ip >= 0 /\ vm.ip < Len(vm.chunk.code)

readByte(vm) == [vm |-> [vm EXCEPT !.ip = @ + 1], byte |-> vm.chunk.code[vm.ip + 1]]

CanReadShort(vm) == vm.ip >= 0 /\ vm.ip + 1 < Len(vm.chunk.code)

\* readShort that takes the first byte as the low one.
readShort_LittleEndian(vm) ==
    [vm |-> [vm EXCEPT !.ip = @ + 2],
     short |-> vm.chunk.code[vm.ip + 2] * ByteRange + vm.chunk.code[vm.ip + 1]]

readShort(vm) ==
    [vm |-> [vm EXCEPT !.ip = @ + 2],
     short |-> vm.chunk.code[vm.ip + 1] * ByteRange + vm.chunk.code[vm.ip + 2]]

CanReadConstant(vm) ==
    CanReadByte(vm) /\ vm.chunk.code[vm.ip + 1] < Len(vm.chunk.constants)

readConstant(vm) ==
    [vm |-> [vm EXCEPT !.ip = @ + 1],
     constant |-> vm.chunk.constants[vm.chunk.code[vm.ip + 1] + 1]]

\* message: the format string; args: its arguments.
\* runtimeError that reports the line of the byte before the instruction.
runtimeError_PrevByte(vm, message, args) ==
    [vm |-> resetVm(vm),
     status |-> "InterpretRuntimeError",
     out |-> <<[kind |-> "script_line", line |-> vm.chunk.lines[vm.ip - 1]]>>,
     err |-> <<[kind |-> "runtime_error", message |-> message, args |-> args]>>]

\* runtimeError that reports and returns without resetVm.
runtimeError_NoReset(vm, message, args) ==
    [vm |-> vm,
     status |-> "InterpretRuntimeError",
     out |-> <<[kind |-> "script_line", line |-> vm.chunk.lines[vm.ip]]>>,
     err |-> <<[kind |-> "runtime_error", message |-> message, args |-> args]>>]

runtimeError(vm, message, args) ==
    [vm |-> resetVm(vm),
     status |-> "InterpretRuntimeError",
     out |-> <<[kind |-> "script_line", line |-> vm.chunk.lines[vm.ip]]>>,
     err |-> <<[kind |-> "runtime_error", message |-> message, args |-> args]>>]

\* The Vm's view of standard output before each instruction.
debugTraceExecution(vm) == [kind |-> "trace", offset |-> vm.ip, height |-> Len(vm.stack)]

setGlobal(globals_, name, value) ==
    [n \in DOMAIN globals_ \cup {name} |-> IF n = name THEN value ELSE globals_[n]]

runReturn(vm) == [Continue(vm) EXCEPT !.status = "InterpretOk"]

runConstant(vm) ==
    IF ~CanReadConstant(vm) THEN Crash(vm)
    ELSE LET r == readConstant(vm) IN Continue(push(r.vm, r.constant))

\* OpNegate that raises for every operand but a number or a string.
runNegate_Strings(vm) ==
    IF Height(vm) < 1 THEN Crash(vm)
    ELSE IF peek(vm, 0).t \notin {"number", "string"}
         THEN runtimeError(vm, "Operand must be a number.", <<>>)
         ELSE IF peek(vm, 0).t = "string" THEN Continue(vm)
         ELSE Continue(push(pop(vm), Negate(peek(vm, 0))))

runNegate(vm) ==
    IF Height(vm) < 1 THEN Crash(vm)
    ELSE IF peek(vm, 0).t # "number"
         THEN runtimeError(vm, "Operand must be a number.", <<>>)
         ELSE Continue(push(pop(vm), Negate(peek(vm, 0))))

\* OpAdd that concatenates the operand popped first in front.
runAdd_Swapped(vm) ==
    IF Height(vm) < 2 THEN Crash(vm)
    ELSE LET b == peek(vm, 0)
             a == peek(vm, 1)
         IN  IF a.t = "string" /\ b.t = "string"
             THEN Continue(push(pop(pop(vm)), StringValue(b.s \o a.s)))
             ELSE IF a.t = "number" /\ b.t = "number"
             THEN Continue(push(pop(pop(vm)), NumAdd(b, a)))
             ELSE runtimeError(vm, "Operands must be two numbers or two strings.", <<>>)

runAdd(vm) ==
    IF Height(vm) < 2 THEN Crash(vm)
    ELSE LET b == peek(vm, 0)
             a == peek(vm, 1)
         IN  IF a.t = "string" /\ b.t = "string"
             THEN Continue(push(pop(pop(vm)), StringValue(a.s \o b.s)))
             ELSE IF a.t = "number" /\ b.t = "number"
             THEN Continue(push(pop(pop(vm)), NumAdd(b, a)))
             ELSE runtimeError(vm, "Operands must be two numbers or two strings.", <<>>)

\* The numeric operators with b the operand pushed first.
runNumeric_Swapped(vm, instruction) ==
    IF Height(vm) < 2 THEN Crash(vm)
    ELSE LET b == peek(vm, 1)
             a == peek(vm, 0)
             vm2 == pop(pop(vm))
         IN  IF a.t # "number" \/ b.t # "number"
             THEN runtimeError(vm, "Operands must be numbers.", <<>>)
             ELSE Continue(
                 CASE instruction = OpSubtract -> push(vm2, NumSubtract(a, b))
                   [] instruction = OpMultiply -> push(vm2, NumMultiply(a, b))
                   [] instruction = OpDivide -> push(vm2, NumDivide(a, b))
                   [] instruction = OpGreater -> push(vm2, BoolValue(NumLess(b, a)))
                   [] instruction = OpLess -> push(vm2, BoolValue(NumLess(a, b)))
                   [] instruction = OpGreaterEqual ->
                         push(vm2, BoolValue(NumLess(b, a) \/ NumEqual(a, b)))
                   [] instruction = OpLessEqual ->
                         push(vm2, BoolValue(NumLess(a, b) \/ NumEqual(a, b))))

runNumeric(vm, instruction) ==
    IF Height(vm) < 2 THEN Crash(vm)
    ELSE LET b == peek(vm, 0)
             a == peek(vm, 1)
             vm2 == pop(pop(vm))
         IN  IF a.t # "number" \/ b.t # "number"
             THEN runtimeError(vm, "Operands must be numbers.", <<>>)
             ELSE Continue(
                 CASE instruction = OpSubtract -> push(vm2, NumSubtract(a, b))
                   [] instruction = OpMultiply -> push(vm2, NumMultiply(a, b))
                   [] instruction = OpDivide -> push(vm2, NumDivide(a, b))
                   [] instruction = OpGreater -> push(vm2, BoolValue(NumLess(b, a)))
                   [] instruction = OpLess -> push(vm2, BoolValue(NumLess(a, b)))
                   [] instruction = OpGreaterEqual ->
                         push(vm2, BoolValue(NumLess(b, a) \/ NumEqual(a, b)))
                   [] instruction = OpLessEqual ->
                         push(vm2, BoolValue(NumLess(a, b) \/ NumEqual(a, b))))

runNot(vm) ==
    IF Height(vm) < 1 THEN Crash(vm)
    ELSE Continue(push(pop(vm), BoolValue(~isTruthy(peek(vm, 0)))))

runEqual(vm) ==
    IF Height(vm) < 2 THEN Crash(vm)
    ELSE Continue(push(pop(pop(vm)), BoolValue(ValuesEqual(peek(vm, 1), peek(vm, 0)))))

runNotEqual(vm) ==
    IF Height(vm) < 2 THEN Crash(vm)
    ELSE Continue(push(pop(pop(vm)), BoolValue(~ValuesEqual(peek(vm, 1), peek(vm, 0)))))

runPrint(vm) ==
    IF Height(vm) < 1 THEN Crash(vm)
    ELSE [Continue(pop(vm)) EXCEPT !.out = <<[kind |-> "print", value |-> peek(vm, 0)]>>]

runPop(vm) == IF Height(vm) < 1 THEN Crash(vm) ELSE Continue(pop(vm))

runDefineGlobal(vm) ==
    IF ~CanReadConstant(vm) THEN Crash(vm)
    ELSE LET r == readConstant(vm)
         IN  IF r.constant.t # "string" \/ Height(vm) < 1 THEN Crash(r.vm)
             ELSE Continue([pop(r.vm) EXCEPT
                      !.globals = setGlobal(@, r.constant.s, peek(vm, 0))])

\* OpGetGlobal that reads a name without a binding as nil.
runGetGlobal_Nil(vm) ==
    IF ~CanReadConstant(vm) THEN Crash(vm)
    ELSE LET r == readConstant(vm)
         IN  IF r.constant.t # "string" THEN Crash(r.vm)
             ELSE IF r.constant.s \notin DOMAIN vm.globals
                  THEN Continue(push(r.vm, NilValue))
                  ELSE Continue(push(r.vm, vm.globals[r.constant.s]))

runGetGlobal(vm) ==
    IF ~CanReadConstant(vm) THEN Crash(vm)
    ELSE LET r == readConstant(vm)
         IN  IF r.constant.t # "string" THEN Crash(r.vm)
             ELSE IF r.constant.s \notin DOMAIN vm.globals
                  THEN runtimeError(r.vm, "Undefined variable '%s'.", <<r.constant.s>>)
                  ELSE Continue(push(r.vm, vm.globals[r.constant.s]))

\* OpSetGlobal that writes the map without looking the name up first.
runSetGlobal_Creates(vm) ==
    IF ~CanReadConstant(vm) THEN Crash(vm)
    ELSE LET r == readConstant(vm)
         IN  IF r.constant.t # "string" \/ Height(vm) < 1 THEN Crash(r.vm)
             ELSE Continue([r.vm EXCEPT
                      !.globals = setGlobal(@, r.constant.s, peek(vm, 0))])

runSetGlobal(vm) ==
    IF ~CanReadConstant(vm) THEN Crash(vm)
    ELSE LET r == readConstant(vm)
         IN  IF r.constant.t # "string" THEN Crash(r.vm)
             ELSE IF r.constant.s \notin DOMAIN vm.globals
                  THEN runtimeError(r.vm, "Undefined variable '%s'.", <<r.constant.s>>)
                  ELSE IF Height(vm) < 1 THEN Crash(r.vm)
                  ELSE Continue([r.vm EXCEPT
                           !.globals = setGlobal(@, r.constant.s, peek(vm, 0))])

runGetLocal(vm) ==
    IF ~CanReadByte(vm) THEN Crash(vm)
    ELSE LET r == readByte(vm)
         IN  IF r.byte >= Height(vm) THEN Crash(r.vm)
             ELSE Continue(push(r.vm, vm.stack[r.byte + 1]))

\* OpSetLocal that pops the value it stored.
runSetLocal_Pops(vm) ==
    IF ~CanReadByte(vm) THEN Crash(vm)
    ELSE LET r == readByte(vm)
         IN  IF r.byte >= Height(vm) THEN Crash(r.vm)
             ELSE Continue([r.vm EXCEPT
                      !.stack = SubSeq([@ EXCEPT ![r.byte + 1] = peek(vm, 0)],
                                       1, Len(@) - 1)])

runSetLocal(vm) ==
    IF ~CanReadByte(vm) THEN Crash(vm)
    ELSE LET r == readByte(vm)
         IN  IF r.byte >= Height(vm) THEN Crash(r.vm)
             ELSE Continue([r.vm EXCEPT !.stack[r.byte + 1] = peek(vm, 0)])

runJumpIfFalse(vm) ==
    IF ~CanReadShort(vm) THEN Crash(vm)
    ELSE LET r == readShort(vm)
         IN  IF Height(vm) < 1 THEN Crash(r.vm)
             ELSE IF ~isTruthy(peek(vm, 0))
                  THEN Continue([r.vm EXCEPT !.ip = @ + r.short])
                  ELSE Continue(r.vm)

runJump(vm) ==
    IF ~CanReadShort(vm) THEN Crash(vm)
    ELSE LET r == readShort(vm) IN Continue([r.vm EXCEPT !.ip = @ + r.short])

runLoop(vm) ==
    IF ~CanReadShort(vm) THEN Crash(vm)
    ELSE LET r == readShort(vm) IN Continue([r.vm EXCEPT !.ip = @ - r.short])

\* The switch of run on the instruction read.
execute(vm, instruction) ==
    CASE instruction = OpReturn -> runReturn(vm)
      [] instruction = OpConstant -> runConstant(vm)
      [] instruction = OpNegate -> runNegate(vm)
      [] instruction = OpAdd -> runAdd(vm)
      [] instruction \in {OpSubtract, OpMultiply, OpDivide, OpGreater,
                          OpLess, OpGreaterEqual, OpLessEqual} ->
            runNumeric(vm, instruction)
      [] instruction = OpNil -> Continue(push(vm, NilValue))
      [] instruction = OpTrue -> Continue(push(vm, BoolValue(TRUE)))
      [] instruction = OpFalse -> Continue(push(vm, BoolValue(FALSE)))
      [] instruction = OpNot -> runNot(vm)
      [] instruction = OpEqual -> runEqual(vm)
      [] instruction = OpNotEqual -> runNotEqual(vm)
      [] instruction = OpPrint -> runPrint(vm)
      [] instruction = OpPop -> runPop(vm)
      [] instruction = OpDefineGlobal -> runDefineGlobal(vm)
      [] instruction = OpGetGlobal -> runGetGlobal(vm)
      [] instruction = OpSetGlobal -> runSetGlobal(vm)
      [] instruction = OpGetLocal -> runGetLocal(vm)
      [] instruction = OpSetLocal -> runSetLocal(vm)
      [] instruction = OpJumpIfFalse -> runJumpIfFalse(vm)
      [] instruction = OpJump -> runJump(vm)
      [] instruction = OpLoop -> runLoop(vm)
      [] OTHER -> Continue(vm)

\* instruction := vm.readByte(), then the switch.
dispatch(f) == execute(f.vm, f.byte)

\* What the iteration wrote follows the trace written before it.
traced(trace, r) == [r EXCEPT !.out = <<trace>> \o @]

\* One iteration of the loop of run: the trace, the fetch and the switch.
runIteration(vm0) ==
    IF ~CanReadByte(vm0) THEN Crash(vm0)
    ELSE traced(debugTraceExecution(vm0), dispatch(readByte(vm0)))

(***************************************************************************)
(* The source texts given to Interpret.                                    *)
(***************************************************************************)
\* print 1 + 2 * 3;
Src_arith ==
    <<"p", "r", "i", "n", "t", " ", "1", " ", "+", " ", "2", " ", "*", " ",
      "3", ";">>

\* var a = 1; \n var b; \n print a;
Src_define ==
    <<"v", "a", "r", " ", "a", " ", "=", " ", "1", ";", "\n", "v", "a", "r",
      " ", "b", ";", "\n", "p", "r", "i", "n", "t", " ", "a", ";">>

\* a = 2; \n print a;
Src_assign ==
    <<"a", " ", "=", " ", "2", ";", "\n", "p", "r", "i", "n", "t", " ", "a",
      ";">>

\* print a;
Src_read ==
    <<"p", "r", "i", "n", "t", " ", "a", ";">>

\* var a = 5; \n a = 6; \n print -"x"; \n a = 7;
Src_rt_error ==
    <<"v", "a", "r", " ", "a", " ", "=", " ", "5", ";", "\n", "a", " ", "=",
      " ", "6", ";", "\n", "p", "r", "i", "n", "t", " ", "-", "\"", "x",
      "\"", ";", "\n", "a", " ", "=", " ", "7", ";">>

\* var c = 1; \n print ;
Src_bad_syntax ==
    <<"v", "a", "r", " ", "c", " ", "=", " ", "1", ";", "\n", "p", "r", "i",
      "n", "t", " ", ";">>

\* var x = 0; while (x < 3) { print x; x = x + 1; }
Src_while_loop ==
    <<"v", "a", "r", " ", "x", " ", "=", " ", "0", ";", " ", "w", "h", "i",
      "l", "e", " ", "(", "x", " ", "<", " ", "3", ")", " ", "{", " ", "p",
      "r", "i", "n", "t", " ", "x", ";", " ", "x", " ", "=", " ", "x", " ",
      "+", " ", "1", ";", " ", "}">>

\* if (nil) print 1; else print 2;
Src_if_else ==
    <<"i", "f", " ", "(", "n", "i", "l", ")", " ", "p", "r", "i", "n", "t",
      " ", "1", ";", " ", "e", "l", "s", "e", " ", "p", "r", "i", "n", "t",
      " ", "2", ";">>

\* if (0) print 1; else print 2;
Src_if_then ==
    <<"i", "f", " ", "(", "0", ")", " ", "p", "r", "i", "n", "t", " ", "1",
      ";", " ", "e", "l", "s", "e", " ", "p", "r", "i", "n", "t", " ", "2",
      ";">>

\* print nil or "x";
Src_or_expr ==
    <<"p", "r", "i", "n", "t", " ", "n", "i", "l", " ", "o", "r", " ", "\"",
      "x", "\"", ";">>

\* print nil and 1;
Src_and_expr ==
    <<"p", "r", "i", "n", "t", " ", "n", "i", "l", " ", "a", "n", "d", " ",
      "1", ";">>

\* var a = 1; { var a = 2; print a; a = 3; print a; } print a;
Src_shadow_global ==
    <<"v", "a", "r", " ", "a", " ", "=", " ", "1", ";", " ", "{", " ", "v",
      "a", "r", " ", "a", " ", "=", " ", "2", ";", " ", "p", "r", "i", "n",
      "t", " ", "a", ";", " ", "a", " ", "=", " ", "3", ";", " ", "p", "r",
      "i", "n", "t", " ", "a", ";", " ", "}", " ", "p", "r", "i", "n", "t",
      " ", "a", ";">>

\* { var a = 1; { var a = 2; print a; a = 3; print a; } print a; }
Src_shadow_local ==
    <<"{", " ", "v", "a", "r", " ", "a", " ", "=", " ", "1", ";", " ", "{",
      " ", "v", "a", "r", " ", "a", " ", "=", " ", "2", ";", " ", "p", "r",
      "i", "n", "t", " ", "a", ";", " ", "a", " ", "=", " ", "3", ";", " ",
      "p", "r", "i", "n", "t", " ", "a", ";", " ", "}", " ", "p", "r", "i",
      "n", "t", " ", "a", ";", " ", "}">>

\* { var a = a; }
Src_self_init ==
    <<"{", " ", "v", "a", "r", " ", "a", " ", "=", " ", "a", ";", " ", "}">>

\* var a = 1; { var a = a; }
Src_self_init_outer ==
    <<"v", "a", "r", " ", "a", " ", "=", " ", "1", ";", " ", "{", " ", "v",
      "a", "r", " ", "a", " ", "=", " ", "a", ";", " ", "}">>

\* { var a = 1; var a = a; }
Src_dup_self_init ==
    <<"{", " ", "v", "a", "r", " ", "a", " ", "=", " ", "1", ";", " ", "v",
      "a", "r", " ", "a", " ", "=", " ", "a", ";", " ", "}">>

\* { var a = 1; var a = 2; }
Src_dup_local ==
    <<"{", " ", "v", "a", "r", " ", "a", " ", "=", " ", "1", ";", " ", "v",
      "a", "r", " ", "a", " ", "=", " ", "2", ";", " ", "}">>

\* { var a = 1; { var b = 2; } var b = 3; print a + b; }
Src_dup_after_inner ==
    <<"{", " ", "v", "a", "r", " ", "a", " ", "=", " ", "1", ";", " ", "{",
      " ", "v", "a", "r", " ", "b", " ", "=", " ", "2", ";", " ", "}", " ",
      "v", "a", "r", " ", "b", " ", "=", " ", "3", ";", " ", "p", "r", "i",
      "n", "t", " ", "a", " ", "+", " ", "b", ";", " ", "}">>

\* var a = 1; var a = 2; print a;
Src_global_twice ==
    <<"v", "a", "r", " ", "a", " ", "=", " ", "1", ";", " ", "v", "a", "r",
      " ", "a", " ", "=", " ", "2", ";", " ", "p", "r", "i", "n", "t", " ",
      "a", ";">>

\* print - \n ( \n "x" \n ) \n ;
Src_rt_lines ==
    <<"p", "r", "i", "n", "t", " ", "-", "\n", "(", "\n", "\"", "x", "\"",
      "\n", ")", "\n", ";">>

\* var a = 1; \n print \n b \n ;
Src_rt_lines_global ==
    <<"v", "a", "r", " ", "a", " ", "=", " ", "1", ";", "\n", "p", "r", "i",
      "n", "t", "\n", "b", "\n", ";">>

\* { var a = 4; var b = a; { print a + b; } }
Src_use_after_decl ==
    <<"{", " ", "v", "a", "r", " ", "a", " ", "=", " ", "4", ";", " ", "v",
      "a", "r", " ", "b", " ", "=", " ", "a", ";", " ", "{", " ", "p", "r",
      "i", "n", "t", " ", "a", " ", "+", " ", "b", ";", " ", "}", " ", "}">>

\* var a = 1; print a = 2; { var b; print b = a; b = 3; }
Src_assign_expr ==
    <<"v", "a", "r", " ", "a", " ", "=", " ", "1", ";", " ", "p", "r", "i",
      "n", "t", " ", "a", " ", "=", " ", "2", ";", " ", "{", " ", "v", "a",
      "r", " ", "b", ";", " ", "p", "r", "i", "n", "t", " ", "b", " ", "=",
      " ", "a", ";", " ", "b", " ", "=", " ", "3", ";", " ", "}">>

Sources ==
    [arith |-> Src_arith,
     define |-> Src_define,
     assign |-> Src_assign,
     read |-> Src_read,
     rt_error |-> Src_rt_error,
     bad_syntax |-> Src_bad_syntax,
     while_loop |-> Src_while_loop,
     if_else |-> Src_if_else,
     if_then |-> Src_if_then,
     or_expr |-> Src_or_expr,
     and_expr |-> Src_and_expr,
     shadow_global |-> Src_shadow_global,
     shadow_local |-> Src_shadow_local,
     self_init |-> Src_self_init,
     self_init_outer |-> Src_self_init_outer,
     dup_self_init |-> Src_dup_self_init,
     dup_local |-> Src_dup_local,
     dup_after_inner |-> Src_dup_after_inner,
     global_twice |-> Src_global_twice,
     rt_lines |-> Src_rt_lines,
     rt_lines_global |-> Src_rt_lines_global,
     use_after_decl |-> Src_use_after_decl,
     assign_expr |-> Src_assign_expr]

\* print ; print ); print 1;
Src_sync_semicolon ==
    <<"p", "r", "i", "n", "t", " ", ";", " ", "p", "r", "i", "n", "t", " ",
      ")", ";", " ", "p", "r", "i", "n", "t", " ", "1", ";">>

\* print 1 2 3 var a = ; print 4;
Src_sync_keyword ==
    <<"p", "r", "i", "n", "t", " ", "1", " ", "2", " ", "3", " ", "v", "a",
      "r", " ", "a", " ", "=", " ", ";", " ", "p", "r", "i", "n", "t", " ",
      "4", ";">>

\* print (1
Src_sync_eof ==
    <<"p", "r", "i", "n", "t", " ", "(", "1">>

\* print 1 2 @ 3; print ;
Src_sync_error_token ==
    <<"p", "r", "i", "n", "t", " ", "1", " ", "2", " ", "@", " ", "3", ";",
      " ", "p", "r", "i", "n", "t", " ", ";">>

\* { print ; print ); } print 1;
Src_block_errors ==
    <<"{", " ", "p", "r", "i", "n", "t", " ", ";", " ", "p", "r", "i", "n",
      "t", " ", ")", ";", " ", "}", " ", "p", "r", "i", "n", "t", " ", "1",
      ";">>

\* 1 = 2;
Src_assign_number ==
    <<"1", " ", "=", " ", "2", ";">>

\* a + b = c;
Src_assign_sum ==
    <<"a", " ", "+", " ", "b", " ", "=", " ", "c", ";">>

\* (a) = 1;
Src_assign_grouping ==
    <<"(", "a", ")", " ", "=", " ", "1", ";">>

\* a = 1;
Src_assign_global ==
    <<"a", " ", "=", " ", "1", ";">>

\* a = b = 1;
Src_assign_chain ==
    <<"a", " ", "=", " ", "b", " ", "=", " ", "1", ";">>

\* { var a; a = 1; }
Src_assign_local ==
    <<"{", " ", "v", "a", "r", " ", "a", ";", " ", "a", " ", "=", " ", "1",
      ";", " ", "}">>

\* print 1.;
Src_number_dot ==
    <<"p", "r", "i", "n", "t", " ", "1", ".", ";">>

\* print 1.5 / 2; // half
Src_number_fraction ==
    <<"p", "r", "i", "n", "t", " ", "1", ".", "5", " ", "/", " ", "2", ";",
      " ", "/", "/", " ", "h", "a", "l", "f">>

\* print 1.
Src_trailing_dot ==
    <<"p", "r", "i", "n", "t", " ", "1", ".">>

\* print 1 /
Src_trailing_slash ==
    <<"p", "r", "i", "n", "t", " ", "1", " ", "/">>

\* The texts the compiler is followed on: those above and the lines of Sources.
CompileSources ==
    [sync_semicolon |-> Src_sync_semicolon,
     sync_keyword |-> Src_sync_keyword,
     sync_eof |-> Src_sync_eof,
     sync_error_token |-> Src_sync_error_token,
     block_errors |-> Src_block_errors,
     assign_number |-> Src_assign_number,
     assign_sum |-> Src_assign_sum,
     assign_grouping |-> Src_assign_grouping,
     assign_global |-> Src_assign_global,
     assign_chain |-> Src_assign_chain,
     assign_local |-> Src_assign_local,
     number_dot |-> Src_number_dot,
     number_fraction |-> Src_number_fraction,
     trailing_dot |-> Src_trailing_dot,
     trailing_slash |-> Src_trailing_slash,
     arith |-> Src_arith,
     define |-> Src_define,
     assign |-> Src_assign,
     read |-> Src_read,
     rt_error |-> Src_rt_error,
     bad_syntax |-> Src_bad_syntax,
     while_loop |-> Src_while_loop,
     if_else |-> Src_if_else,
     if_then |-> Src_if_then,
     or_expr |-> Src_or_expr,
     and_expr |-> Src_and_expr,
     shadow_global |-> Src_shadow_global,
     shadow_local |-> Src_shadow_local,
     self_init |-> Src_self_init,
     self_init_outer |-> Src_self_init_outer,
     dup_self_init |-> Src_dup_self_init,
     dup_local |-> Src_dup_local,
     dup_after_inner |-> Src_dup_after_inner,
     global_twice |-> Src_global_twice,
     rt_lines |-> Src_rt_lines,
     rt_lines_global |-> Src_rt_lines_global,
     use_after_decl |-> Src_use_after_decl,
     assign_expr |-> Src_assign_expr]

CompileSourceIds == DOMAIN CompileSources

SourceIds == DOMAIN Sources

RECURSIVE Repeat(_, _)
Repeat(s, n) == IF n = 0 THEN <<>> ELSE s \o Repeat(s, n - 1)

\* 0+0+ ... +0;  with n literals.
ZeroSum(n) == Repeat(<<"0", "+">>, n - 1) \o <<"0", ";">>

\* A text of 257 number literals: print 1; then 17 statements of 15 zeros,
\* then print 2;
Src_pool_over ==
    <<"p", "r", "i", "n", "t", " ", "1", ";">> \o Repeat(ZeroSum(15), 17)
        \o <<"p", "r", "i", "n", "t", " ", "2", ";">>

\* The lines given to a Vm whose constant pool is filled up.
PoolSources ==
    [pool_over |-> Src_pool_over, arith |-> Src_arith, define |-> Src_define,
     read |-> Src_read]

PoolSourceIds == DOMAIN PoolSources

(***************************************************************************)
(* main.go, repl: one Vm, one Interpret call per line read.                *)
(* pc is "idle" between calls, "run" inside the loop of run, "crashed"     *)
(* once Go has panicked.  result is what the last Interpret call returned  *)
(* ("None" before the first return and while a call is running); stdout    *)
(* and stderr hold what the current call has written; compiled records     *)
(* the compiler of the current call after compile.                         *)
(***************************************************************************)
Vm == [chunk |-> chunk, ip |-> ip, stack |-> stack, globals |-> globals]

NotCompiled ==
    [hadError |-> FALSE, truncated |-> FALSE, selfInit |-> FALSE,
     constants |-> 0, code |-> 0]

Summary(c) ==
    [hadError |-> c.hadError, truncated |-> c.truncated, selfInit |-> c.selfInit,
     constants |-> Len(c.chunk.constants), code |-> Len(c.chunk.code)]

\* The process with its Vm new, but for src and compiler.
VmStarted(at, arguments) ==
    /\ chunk = NewVm.chunk
    /\ ip = NewVm.ip
    /\ stack = NewVm.stack
    /\ globals = NewVm.globals
    /\ pc = at
    /\ result = "None"
    /\ stdout = <<>>
    /\ stderr = <<>>
    /\ calls = 0
    /\ compiled = NotCompiled
    /\ osArgs = arguments
    /\ exit = <<>>

\* The process with its Vm new: at (the entry of main, or the REPL waiting
\* for a line) and the command-line arguments (args in main.go).  exit is
\* <<>> while the process lives and <<status>> once it has ended.
\* compiler is the Compiler a compile is followed in step by step; where
\* Interpret is one step it stays the Compiler of an empty text.
Started(at, arguments) ==
    /\ VmStarted(at, arguments)
    /\ src = "none"
    /\ compiler = NewCompiler(<<>>, NewChunk)

\* A REPL that has just created its Vm.
Init == Started("idle", <<>>)

\* runFile is the caller of Interpret when there is one argument, repl
\* otherwise.
FileMode == Len(osArgs) = 1

\* Where the process is once Interpret has returned: runFile returns or
\* exits, repl reads the next line.
pcAfter == IF FileMode THEN "exited" ELSE "idle"

\* The exit status runFile (and main after it) ends the process with.
exitAfter(status) ==
    IF ~FileMode THEN exit
    ELSE CASE status = "InterpretCompileError" -> <<65>>
           [] status = "InterpretRuntimeError" -> <<70>>
           [] OTHER -> <<0>>

\* The exit status of a Go program that panics.
PanicExit == <<2>>

\* Vm.Interpret after compile, c being the compiler: resetVm and the return
\* of InterpretCompileError, or the entry into run.
Compiled(id, c, vm) ==
    /\ chunk' = vm.chunk
    /\ ip' = vm.ip
    /\ stack' = vm.stack
    /\ globals' = vm.globals
    /\ pc' = IF c.crash THEN "crashed" ELSE IF c.hadError THEN pcAfter ELSE "run"
    /\ result' = IF ~c.crash /\ c.hadError THEN "InterpretCompileError" ELSE "None"
    /\ stdout' = <<>>
    /\ stderr' = c.diag
    /\ compiled' = Summary(c)
    /\ calls' = calls + 1
    /\ src' = id
    /\ osArgs' = osArgs
    /\ compiler' = compiler
    /\ exit' = IF c.crash THEN PanicExit
               ELSE IF c.hadError THEN exitAfter("InterpretCompileError")
               ELSE exit

\* Interpret that rewinds ip before it enters run.
AfterCompile_Rewinds(id, c) ==
    Compiled(id, c, IF c.hadError THEN resetVm(Vm)
                    ELSE [Vm EXCEPT !.chunk = c.chunk, !.ip = 0])

AfterCompile(id, c) ==
    Compiled(id, c, IF c.hadError THEN resetVm(Vm) ELSE [Vm EXCEPT !.chunk = c.chunk])

InterpretSource(id, source) ==
    /\ pc = "idle"
    /\ calls < MaxCalls
    /\ AfterCompile(id, compile(NewCompiler(source, chunk)))

Interpret == \E id \in SourceIds : InterpretSource(id, Sources[id])

\* The Vm after one iteration of run, and the return of run if it returned.
Iterated(r) ==
    /\ chunk' = r.vm.chunk
    /\ ip' = r.vm.ip
    /\ stack' = r.vm.stack
    /\ globals' = r.vm.globals
    /\ pc' = CASE r.status = "continue" -> "run"
               [] r.status = "crash" -> "crashed"
               [] OTHER -> pcAfter
    /\ result' = IF r.status \in {"continue", "crash"} THEN "None" ELSE r.status
    /\ stdout' = stdout \o r.out
    /\ stderr' = stderr \o r.err
    /\ exit' = CASE r.status = "continue" -> exit
                 [] r.status = "crash" -> PanicExit
                 [] OTHER -> exitAfter(r.status)
    /\ UNCHANGED <<calls, src, compiled, osArgs, compiler>>

\* One iteration of the loop of Vm.run.
Step ==
    /\ pc = "run"
    /\ Iterated(runIteration(Vm))

Next == Interpret \/ Step

Spec == Init /\ [][Next]_vars

InterpretPool == \E id \in PoolSourceIds : InterpretSource(id, PoolSources[id])

NextPool == InterpretPool \/ Step

\* The same Vm given lines that need more than 256 constants.
SpecPool == Init /\ [][NextPool]_vars



\* The literals an expression is built from: nil, true, false, 0, 1, 2, 0.5,
\* "", "a", "b".
ExprLiterals ==
    {<<"n", "i", "l">>, <<"t", "r", "u", "e">>, <<"f", "a", "l", "s", "e">>,
     <<"0">>, <<"1">>, <<"2">>, <<"0", ".", "5">>,
     <<"\"", "\"">>, <<"\"", "a", "\"">>, <<"\"", "b", "\"">>}

BinaryOperators ==
    {<<"+">>, <<"-">>, <<"*">>, <<"/">>, <<">">>, <<">", "=">>, <<"<">>,
     <<"<", "=">>, <<"=", "=">>, <<"!", "=">>}

UnaryOperators == {<<"-">>, <<"!">>}

PrintText == <<"p", "r", "i", "n", "t", " ">>

\* print a op b;
BinarySource(a, op, b) == PrintText \o a \o <<" ">> \o op \o <<" ">> \o b \o <<";">>

\* print op a;
UnarySource(op, a) == PrintText \o op \o a \o <<";">>

\* A new Vm given one line that prints a binary expression of two literals.
InterpretBinary ==
    \E a \in ExprLiterals, op \in BinaryOperators, b \in ExprLiterals :
        calls = 0 /\ InterpretSource("binary_expr", BinarySource(a, op, b))

\* A new Vm given one line that prints a unary expression of a literal.
InterpretUnary ==
    \E op \in UnaryOperators, a \in ExprLiterals :
        calls = 0 /\ InterpretSource("unary_expr", UnarySource(op, a))

NextExpr == InterpretBinary \/ InterpretUnary \/ Step

\* One expression of every operator and every pair of literals, each on a
\* new Vm.
SpecExpr == Init /\ [][NextExpr]_vars

----------------------------------------------------------------------------
\* Expressions of three operands and two binary operators, with or without
\* parentheses and unary operators.

\* Where the parentheses and the unary operators of the expression are.
Shapes == {"flat", "left", "right", "negated", "not_second", "negated_third"}

Spaced(op) == <<" ">> \o op \o <<" ">>

\* print 1 op1 2 op2 3; in the given shape.
NestedSource(shape, op1, op2) ==
    PrintText \o
    (CASE shape = "flat" -> <<"1">> \o Spaced(op1) \o <<"2">> \o Spaced(op2) \o <<"3">>
       [] shape = "left" ->
             <<"(", "1">> \o Spaced(op1) \o <<"2", ")">> \o Spaced(op2) \o <<"3">>
       [] shape = "right" ->
             <<"1">> \o Spaced(op1) \o <<"(", "2">> \o Spaced(op2) \o <<"3", ")">>
       [] shape = "negated" ->
             <<"-", "1">> \o Spaced(op1) \o <<"2">> \o Spaced(op2) \o <<"3">>
       [] shape = "not_second" ->
             <<"1">> \o Spaced(op1) \o <<"!", "2">> \o Spaced(op2) \o <<"3">>
       [] shape = "negated_third" ->
             <<"1">> \o Spaced(op1) \o <<"2">> \o Spaced(op2) \o <<"-", "3">>)
    \o <<";">>

\* A new Vm given one line that prints such an expression.
InterpretNested ==
    \E shape \in Shapes, op1 \in BinaryOperators, op2 \in BinaryOperators :
        calls = 0 /\ InterpretSource(<<shape, op1, op2>>, NestedSource(shape, op1, op2))

NextParse == InterpretNested \/ Step

SpecParse == Init /\ [][NextParse]_vars

----------------------------------------------------------------------------
\* compile followed step by step: the first advance, then one declaration
\* (the first if of declaration) or one synchronize (its second if) per
\* step, then end.

InitCompile ==
    \E id \in CompileSourceIds :
        /\ VmStarted("compile", <<>>)
        /\ src = id
        /\ compiler = NewCompiler(CompileSources[id], NewChunk)

\* The compiler is c and goes on at the place at, unless Go has panicked.
CompileStep(c, at) ==
    /\ compiler' = c
    /\ pc' = IF c.crash THEN "crashed" ELSE at
    /\ UNCHANGED <<chunk, ip, stack, globals, result, stdout, stderr, calls, src,
                   compiled, osArgs, exit>>

\* compile: compiler.advance()
StartCompile ==
    /\ pc = "compile"
    /\ CompileStep(advance(compiler), "declaration")

Declared(c) == CompileStep(c, IF c.panicMode THEN "synchronize" ELSE "declaration")

\* declaration up to its test of panicMode, when match(TokenEOF) has failed.
Declare ==
    /\ pc = "declaration"
    /\ ~check(compiler, "TokenEOF")
    /\ Declared(declarationKind(match(compiler, "TokenVar")))

\* declaration: compiler.synchronize()
Synchronize ==
    /\ pc = "synchronize"
    /\ CompileStep(synchronize(compiler), "declaration")

\* compile: match(TokenEOF) has succeeded; compiler.end()
EndCompile ==
    /\ pc = "declaration"
    /\ check(compiler, "TokenEOF")
    /\ CompileStep(end(advance(compiler)), "compiled")

NextCompile == StartCompile \/ Declare \/ Synchronize \/ EndCompile

\* The compiler alone, on each of the texts of CompileSources.
SpecCompile == InitCompile /\ [][NextCompile]_vars

----------------------------------------------------------------------------
\* One Interpret call from its entry to its return: compile step by step,
\* then run.  The loop of run is one thread of control that nothing suspends:
\* as long as it has a next iteration it takes it.

\* Vm.Interpret after compile.
EnterRun ==
    /\ pc = "compiled"
    /\ AfterCompile(src, compiler)

NextInterpret == NextCompile \/ EnterRun \/ Step

SpecInterpret == InitCompile /\ [][NextInterpret]_vars /\ WF_vars(Step)

----------------------------------------------------------------------------
\* statement and block, one step per `{`, per `}` and per declaration that
\* is not a block, on texts made of blocks and variable declarations.

\* Number of items (`{`, `}`, a declaration) of a text.
MaxItems == 6

ScopeItems ==
    [open |-> <<"{">>,
     close |-> <<"}">>,
     var_a |-> <<"v", "a", "r", " ", "a", ";">>,
     var_b |-> <<"v", "a", "r", " ", "b", ";">>]

\* The nesting depth after the first n items, -1 once a `}` had no `{`.
RECURSIVE NestingAfter(_, _)
NestingAfter(items, n) ==
    IF n = 0 THEN 0
    ELSE LET before == NestingAfter(items, n - 1)
         IN  CASE before = -1 -> -1
               [] items[n] = "open" -> before + 1
               [] items[n] = "close" -> before - 1
               [] OTHER -> before

\* The texts: every `}` closes a `{` and every `{` is closed.
ScopeSources ==
    UNION {{items \in [1..n -> DOMAIN ScopeItems] : NestingAfter(items, n) = 0}
           : n \in 1..MaxItems}

RECURSIVE ScopeText(_, _)
ScopeText(items, n) ==
    IF n = 0 THEN <<>> ELSE ScopeText(items, n - 1) \o ScopeItems[items[n]] \o <<" ">>

InitScope ==
    \E items \in ScopeSources :
        /\ VmStarted("compile", <<>>)
        /\ src = items
        /\ compiler = NewCompiler(ScopeText(items, Len(items)), NewChunk)

\* statement: match(TokenLeftBrace) and beginScope, block's loop to come.
ScopeBegin ==
    /\ pc = "declaration"
    /\ check(compiler, "TokenLeftBrace")
    /\ CompileStep(beginScope(advance(compiler)), "declaration")

\* One turn of the loop of block (or of compile): a declaration.
ScopeDeclare ==
    /\ pc = "declaration"
    /\ compiler.current.tokenType \notin {"TokenLeftBrace", "TokenRightBrace", "TokenEOF"}
    /\ CompileStep(declaration(compiler), "declaration")

\* The end of block and of statement: consume(TokenRightBrace), endScope.
ScopeEnd ==
    /\ pc = "declaration"
    /\ check(compiler, "TokenRightBrace")
    /\ compiler.scopeDepth > 0
    /\ CompileStep(endScope(consume(compiler, "TokenRightBrace", "Expect '}' after block.")),
                   "declaration")

NextScope == StartCompile \/ ScopeBegin \/ ScopeDeclare \/ ScopeEnd \/ EndCompile

SpecScope == InitScope /\ [][NextScope]_vars

----------------------------------------------------------------------------
\* Interpret on one block of many locals, compile followed step by step as
\* above and run after it.

\* Number of locals of the largest block.
MaxLocals == 257

LocalCounts == {1, 2, MaxLocals - 1, MaxLocals}

NameLetters ==
    <<"a", "b", "c", "d", "e", "f", "g", "h", "i", "j", "k", "l", "m", "n", "o", "p",
      "q", "r", "s", "t">>

\* The name of the i-th local (from 0): x and two letters.
LocalName(i) ==
    <<"x", NameLetters[(i \div Len(NameLetters)) + 1],
      NameLetters[(i % Len(NameLetters)) + 1]>>

\* var NAME; with a space behind it.
NilDeclaration(i) == <<"v", "a", "r", " ">> \o LocalName(i) \o <<";", " ">>

\* The declarations of the locals 0 .. n - 1, character by character.
NilDeclarations(n) ==
    LET width == Len(NilDeclaration(0))
    IN  [k \in 1..width * n |-> NilDeclaration((k - 1) \div width)[((k - 1) % width) + 1]]

\* { var x0; ... var xLast = 1; print xLast; xLast = 2; print xLast; }
LocalsSource(n) ==
    <<"{", " ">> \o NilDeclarations(n - 1)
    \o <<"v", "a", "r", " ">> \o LocalName(n - 1) \o <<" ", "=", " ", "1", ";", " ">>
    \o PrintText \o LocalName(n - 1) \o <<";", " ">>
    \o LocalName(n - 1) \o <<" ", "=", " ", "2", ";", " ">>
    \o PrintText \o LocalName(n - 1) \o <<";", " ", "}">>

InitLocals ==
    \E n \in LocalCounts :
        /\ VmStarted("compile", <<>>)
        /\ src = n
        /\ compiler = NewCompiler(LocalsSource(n), NewChunk)

NextLocals ==
    StartCompile \/ ScopeBegin \/ ScopeDeclare \/ ScopeEnd \/ EndCompile \/ EnterRun \/ Step

SpecLocals == InitLocals /\ [][NextLocals]_vars

----------------------------------------------------------------------------
\* run on chunks that hold a jump.  compile emits none, so the chunks are
\* written with Chunk.Write and Chunk.AddConstant: one instruction that
\* pushes a value, the jump with its two operand bytes, then OpReturn up to
\* MaxJump bytes.

\* Number of bytes of the chunks.
MaxJump == 270

JumpInstructions == {OpJumpIfFalse, OpJump, OpLoop}

\* The two operand bytes: 0, 1, 2, 256, 260.
JumpOperands == {<<0, 0>>, <<0, 1>>, <<0, 2>>, <<1, 0>>, <<1, 4>>}

\* The instruction before the jump and the constants it needs.
JumpPrefixes ==
    {[code |-> <<OpNil>>, constants |-> <<>>],
     [code |-> <<OpTrue>>, constants |-> <<>>],
     [code |-> <<OpFalse>>, constants |-> <<>>],
     [code |-> <<OpConstant, 0>>, constants |-> <<NumberValue(0)>>],
     [code |-> <<OpConstant, 0>>, constants |-> <<StringValue(<<>>)>>]}

JumpCode(prefix, instruction, operand) ==
    LET head == prefix.code \o <<instruction>> \o operand
    IN  head \o [i \in 1..MaxJump - Len(head) |-> OpReturn]

JumpChunk(prefix, instruction, operand) ==
    [code |-> JumpCode(prefix, instruction, operand),
     constants |-> prefix.constants,
     lines |-> [i \in 1..MaxJump |-> 1]]

InitJump ==
    \E prefix \in JumpPrefixes, instruction \in JumpInstructions,
       operand \in JumpOperands :
        /\ chunk = JumpChunk(prefix, instruction, operand)
        /\ ip = NewVm.ip
        /\ stack = NewVm.stack
        /\ globals = NewVm.globals
        /\ pc = "run"
        /\ result = "None"
        /\ stdout = <<>>
        /\ stderr = <<>>
        /\ calls = 0
        /\ src = "none"
        /\ compiled = NotCompiled
        /\ osArgs = <<>>
        /\ exit = <<>>
        /\ compiler = NewCompiler(<<>>, NewChunk)

SpecJump == InitJump /\ [][Step]_vars

----------------------------------------------------------------------------
\* main.go: the process from the entry of main.

\* The files that can be read, each with the source text it holds.
Files ==
    ("arith.lox" :> "arith") @@ ("bad_syntax.lox" :> "bad_syntax")
        @@ ("rt_error.lox" :> "rt_error")

\* The command lines tried: no argument, one path (three readable files and
\* a missing one), two paths.
ArgLists ==
    {<<>>, <<"arith.lox">>, <<"bad_syntax.lox">>, <<"rt_error.lox">>,
     <<"missing.lox">>, <<"arith.lox", "rt_error.lox">>}

InitMain == \E arguments \in ArgLists : Started("main", arguments)

\* The process ends with this status after writing err to standard error.
Exits(status, err) ==
    /\ pc' = "exited"
    /\ exit' = status
    /\ stderr' = stderr \o err
    /\ UNCHANGED <<chunk, ip, stack, globals, result, stdout, calls, src, compiled,
                   osArgs, compiler>>

\* Go's bounds check of s[i], i counted from 0.
IndexInRange(s, i) == 0 <= i /\ i < Len(s)

\* runFile(path) with readFile: exit 74 when the file cannot be read,
\* otherwise Interpret of its text on a new Vm.
runFile(path) ==
    IF path \notin DOMAIN Files
    THEN Exits(<<74>>, <<[kind |-> "could_not_read", path |-> path]>>)
    ELSE AfterCompile(Files[path], compile(NewCompiler(Sources[Files[path]], chunk)))

\* main up to the call it makes: repl(), runFile(args[1]) or the usage error.
Main ==
    /\ pc = "main"
    /\ CASE Len(osArgs) = 0 ->
               /\ pc' = "idle"
               /\ UNCHANGED <<chunk, ip, stack, globals, result, stdout, stderr, calls,
                              src, compiled, osArgs, exit, compiler>>
         [] Len(osArgs) = 1 ->
               IF IndexInRange(osArgs, 1)
               THEN runFile(osArgs[2])
               ELSE /\ pc' = "crashed"
                    /\ exit' = PanicExit
                    /\ UNCHANGED <<chunk, ip, stack, globals, result, stdout, stderr,
                                   calls, src, compiled, osArgs, compiler>>
         [] OTHER -> Exits(<<64>>, <<[kind |-> "usage"]>>)

\* repl: reader.ReadString fails (end of input): the error is written to
\* standard output and the process exits with 64.
ReadError ==
    /\ pc = "idle"
    /\ pc' = "exited"
    /\ exit' = <<64>>
    /\ stdout' = <<[kind |-> "read_error"]>>
    /\ UNCHANGED <<chunk, ip, stack, globals, result, stderr, calls, src, compiled,
                   osArgs, compiler>>

NextMain == Main \/ ReadError \/ Interpret \/ Step

\* The process from main on, for each of the command lines.
SpecMain == InitMain /\ [][NextMain]_vars

----------------------------------------------------------------------------
\* What a call wrote, read back from stdout and stderr.

IsPrint(e) == e.kind = "print"

\* The values written by OpPrint in the current call, in order.
Printed == [i \in DOMAIN SelectSeq(stdout, IsPrint) |-> SelectSeq(stdout, IsPrint)[i].value]

HasDiag(message) ==
    \E i \in DOMAIN stderr :
        stderr[i].kind = "compile_error" /\ stderr[i].message = message

RuntimeErrors == {i \in DOMAIN stderr : stderr[i].kind = "runtime_error"}

ErrorResults == {"InterpretCompileError", "InterpretRuntimeError"}

\* The call of Interpret that has just returned or handed over to run.
Called == calls' = calls + 1 /\ pc' # "crashed"

\* The instruction run is about to execute.
AtInstruction(op) ==
    pc = "run" /\ ip >= 0 /\ ip < Len(chunk.code) /\ chunk.code[ip + 1] = op

\* The name operand of the instruction run is about to execute.
NameOperand == chunk.constants[chunk.code[ip + 2] + 1].s

NameA == <<"a">>

----------------------------------------------------------------------------
\* C1: Interpret returns InterpretCompileError exactly when the compiler wrote
\* at least one diagnostic; in that case the call ends at once, no instruction
\* of the source is executed (nothing is traced or printed) and the globals
\* are the ones the call started with.
C1_CompileErrorAborts ==
    /\ [](result = "InterpretCompileError" => pc = "idle" /\ stdout = <<>>)
    /\ [][Called =>
            /\ (stderr' # <<>>) <=> (result' = "InterpretCompileError")
            /\ (stderr' # <<>>) => pc' = "idle" /\ stdout' = <<>> /\ globals' = globals]_vars

\* A line with a syntax error after a declaration, given to a Vm that already
\* holds the global a: the call returned the compile error, c was not defined.
C1_Witness ==
    /\ src = "bad_syntax" /\ result = "InterpretCompileError"
    /\ NameA \in DOMAIN globals /\ <<"c">> \notin DOMAIN globals

\* C2: the globals live across calls of Interpret: a call starts with the
\* globals the previous one ended with, a call that ends in a compile or
\* runtime error leaves the bindings made so far in place, no step removes a
\* binding, only OpDefineGlobal and OpSetGlobal change one, and after an error
\* the Vm is idle and takes the next line.
C2_GlobalsPersist ==
    /\ [](result \in ErrorResults => pc = "idle")
    /\ [](src = "read" /\ result = "InterpretOk" => Printed = <<globals[NameA]>>)
    /\ [][/\ Called => globals' = globals
          /\ result' \in ErrorResults => globals' = globals
          /\ \A n \in DOMAIN globals : n \in DOMAIN globals'
          /\ globals' # globals =>
                AtInstruction(OpDefineGlobal) \/ AtInstruction(OpSetGlobal)]_vars

\* print a; printed 6, the value a line that ended in a runtime error had
\* assigned before it failed.
C2_Witness ==
    src = "read" /\ result = "InterpretOk" /\ Printed = <<NumberValue(6)>>

\* C3: when run meets a runtime error it returns InterpretRuntimeError in that
\* very iteration, the error is written once, and afterwards the stack is
\* empty, ip is 0 and the chunk is a new empty one; the rest of the line is
\* not executed.
C3_RuntimeErrorResets ==
    result = "InterpretRuntimeError" =>
        /\ pc = "idle" /\ stack = <<>> /\ ip = 0 /\ chunk = NewChunk
        /\ Cardinality(RuntimeErrors) = 1
        /\ stdout[Len(stdout)].kind = "script_line"
        /\ src = "rt_error" => globals[NameA] = NumberValue(6)

\* The line whose third statement negates a string has failed.
C3_Witness ==
    /\ src = "rt_error" /\ result = "InterpretRuntimeError"
    /\ stderr[Len(stderr)].message = "Operand must be a number."

\* C4: OpSetGlobal on a name that is not defined is a runtime error
\* "Undefined variable '<name>'." and creates no binding, so that a later
\* read of the name is the same error.
C4_SetUndefinedGlobal ==
    /\ [](src = "read" /\ pc = "idle" /\ NameA \notin DOMAIN globals
            => result = "InterpretRuntimeError")
    /\ [][AtInstruction(OpSetGlobal) /\ NameOperand \notin DOMAIN globals =>
            /\ result' = "InterpretRuntimeError"
            /\ globals' = globals
            /\ stderr' = Append(stderr, [kind |-> "runtime_error",
                                         message |-> "Undefined variable '%s'.",
                                         args |-> <<NameOperand>>])]_vars

\* a = 2; on a Vm without a has failed and a is still not defined.
C4_Witness ==
    /\ src = "assign" /\ result = "InterpretRuntimeError"
    /\ NameA \notin DOMAIN globals

\* C5: every constant operand the compiler emits is the index AddConstant
\* returned, below 256, and a chunk that needs a 257th constant is rejected
\* with a compile error.
C5_ConstantLimit ==
    /\ ~compiled.truncated
    /\ compiled.constants > ByteRange => result = "InterpretCompileError"

\* C6: a while statement compiles and loops: the line
\* var x = 0; while (x < 3) { print x; x = x + 1; } prints 0, 1, 2.
C6_WhileLoops ==
    src = "while_loop" /\ pc = "idle" =>
        /\ result = "InterpretOk"
        /\ Printed = <<NumberValue(0), NumberValue(1), NumberValue(2)>>

\* C7: if/else executes exactly one branch: the else branch when the
\* condition is nil, the then branch when it is 0 (a truthy value).
C7_IfElseOneBranch ==
    /\ src = "if_else" /\ pc = "idle" =>
            result = "InterpretOk" /\ Printed = <<NumberValue(2)>>
    /\ src = "if_then" /\ pc = "idle" =>
            result = "InterpretOk" /\ Printed = <<NumberValue(1)>>

\* C8: and and or are short-circuit infix operators: nil or "x" is "x",
\* nil and 1 is nil.
C8_ShortCircuit ==
    /\ src = "or_expr" /\ pc = "idle" =>
            result = "InterpretOk" /\ Printed = <<StringValue(<<"x">>)>>
    /\ src = "and_expr" /\ pc = "idle" =>
            result = "InterpretOk" /\ Printed = <<NilValue>>

\* C9: a var declared in a block shadows the global or the enclosing local of
\* the same name: inside the block reads and assignments reach the inner
\* variable (2, then 3), and after the block the outer one is visible again
\* with its value (1) untouched.
C9_BlockShadows ==
    src \in {"shadow_global", "shadow_local"} /\ pc = "idle" =>
        /\ result = "InterpretOk"
        /\ Printed = <<NumberValue(2), NumberValue(3), NumberValue(1)>>
        /\ stack = <<>>
        /\ src = "shadow_global" => globals[NameA] = NumberValue(1)

\* The block that shadows a local has run to its end.
C9_Witness ==
    /\ src = "shadow_local" /\ pc = "idle" /\ result = "InterpretOk"
    /\ Len(Printed) = 3

\* C10: a local read inside its own initializer makes the call a compile
\* error, reported as "Cannot read local variable in its own initializer."
\* (also when a global of the same name exists), and nothing of the line is
\* executed; a local read after its declaration is complete, in the same or
\* in an inner scope, is never reported so.
C10_OwnInitializer ==
    /\ compiled.selfInit => result = "InterpretCompileError" /\ stdout = <<>>
    /\ src \in {"self_init", "self_init_outer"} =>
            /\ compiled.selfInit
            /\ HasDiag("Cannot read local variable in its own initializer.")
    /\ src \in {"use_after_decl", "shadow_global", "shadow_local"} =>
            /\ ~compiled.selfInit
            /\ ~HasDiag("Cannot read local variable in its own initializer.")
            /\ pc = "idle" => result = "InterpretOk"

\* { var a = a; } after var a = 1; was rejected, the global a is untouched.
C10_Witness ==
    /\ src = "self_init" /\ result = "InterpretCompileError"
    /\ NameA \in DOMAIN globals
    /\ HasDiag("Cannot read local variable in its own initializer.")


\* C11: declaring a local with the name of another local of the same scope
\* is the compile error "Already a variable with this name in this scope.";
\* a name that only matches a local of an enclosing scope, a local of a
\* scope already closed, or a global is declared without that error.
C11_SameScopeRedeclaration ==
    /\ src \in {"dup_local", "dup_self_init"} =>
            /\ result = "InterpretCompileError"
            /\ HasDiag("Already a variable with this name in this scope.")
    /\ src \in {"shadow_global", "shadow_local", "dup_after_inner", "global_twice",
                "use_after_decl"} =>
            /\ ~HasDiag("Already a variable with this name in this scope.")
            /\ pc = "idle" => result = "InterpretOk"
    /\ src = "dup_after_inner" /\ pc = "idle" => Printed = <<NumberValue(4)>>
    /\ src = "global_twice" /\ pc = "idle" => Printed = <<NumberValue(2)>>

\* { var a = 1; var a = 2; } was rejected with that one diagnostic.
C11_Witness ==
    /\ src = "dup_local" /\ result = "InterpretCompileError"
    /\ Len(stderr) = 1
    /\ stderr[1].message = "Already a variable with this name in this scope."


\* C12: during a call of Interpret only OpPrint writes to standard output:
\* every entry of stdout is a printed value; OpReturn, the other
\* instructions and the error reports write nothing there.
C12_OnlyPrintWritesStdout ==
    \A i \in DOMAIN stdout : stdout[i].kind = "print"

\* C13: a runtime error is reported on standard error alone: the message
\* and then the line "[line L] in script", nothing of it on standard output.
C13_ReportOnStderr ==
    result = "InterpretRuntimeError" =>
        /\ Len(stderr) >= 2
        /\ stderr[Len(stderr) - 1].kind = "runtime_error"
        /\ stderr[Len(stderr)].kind = "script_line"
        /\ \A i \in DOMAIN stdout : stdout[i].kind # "script_line"

\* The line number of the last "[line L] in script" written by the call.
ReportedLine == stdout[Len(stdout)].line

\* C14: the line reported with a runtime error is the line recorded in the
\* chunk for the instruction that raised it, with or without operand bytes:
\* not the line of the instruction before it or after it.
C14_ErrorLine ==
    /\ [](src = "rt_lines" /\ result = "InterpretRuntimeError" => ReportedLine = 4)
    /\ [](src = "rt_lines_global" /\ result = "InterpretRuntimeError" => ReportedLine = 3)
    /\ [][pc = "run" /\ result' = "InterpretRuntimeError" =>
            stdout'[Len(stdout')] =
                [kind |-> "script_line", line |-> chunk.lines[ip + 1]]]_vars

\* OpNegate, emitted on line 4 after a constant of line 3 and before an
\* OpPrint of line 5, has failed.
C14_Witness ==
    /\ src = "rt_lines" /\ result = "InterpretRuntimeError"
    /\ stdout[Len(stdout)].kind = "script_line"
    /\ stderr[Len(stderr)].message = "Operand must be a number."


----------------------------------------------------------------------------
\* The operands of the instruction run is about to execute, and what the
\* iteration does with them.

\* The operand pushed first (below the top) and the one pushed second (top).
OperandA == stack[Len(stack) - 1]

OperandB == stack[Len(stack)]

Below(n) == SubSeq(stack, 1, Len(stack) - n)

\* The iteration raises a runtime error with this message.
Raises(message) ==
    /\ result' = "InterpretRuntimeError"
    /\ stderr' = Append(stderr, [kind |-> "runtime_error", message |-> message,
                                 args |-> <<>>])

\* The iteration raises nothing and leaves value on top of rest.
Pushes(rest, value) ==
    result' = "None" /\ pc' = "run" /\ stderr' = stderr /\ stack' = Append(rest, value)

Finite(v) == v.t = "number" /\ v.d # 0

\* C15: OpNegate raises "Operand must be a number." exactly when the top of
\* the stack is not a Number (nil, a boolean, a string); on a Number it
\* replaces the top by its negation and raises nothing.
C15_Negate ==
    [][AtInstruction(OpNegate) /\ Len(stack) >= 1 =>
          IF OperandB.t = "number"
          THEN Finite(OperandB) => Pushes(Below(1), Ratio(0 - OperandB.n, OperandB.d))
          ELSE Raises("Operand must be a number.")]_vars

\* print -2; has printed -2.
C15_Witness ==
    /\ src = "unary_expr" /\ result = "InterpretOk"
    /\ chunk.code = <<OpConstant, 0, OpNegate, OpPrint, OpReturn>>
    /\ Printed = <<Ratio(-2, 1)>>

\* C16: OpAdd on two Strings pushes the operand pushed first followed by the
\* one pushed second, on two Numbers their sum, and raises "Operands must be
\* two numbers or two strings." on every other pair; when it succeeds two
\* values are popped and one is pushed.
C16_Add ==
    [][AtInstruction(OpAdd) /\ Len(stack) >= 2 =>
          CASE OperandA.t = "string" /\ OperandB.t = "string" ->
                   Pushes(Below(2), StringValue(OperandA.s \o OperandB.s))
            [] Finite(OperandA) /\ Finite(OperandB) ->
                   Pushes(Below(2), Ratio(OperandA.n * OperandB.d + OperandB.n * OperandA.d,
                                          OperandA.d * OperandB.d))
            [] OTHER ->
                   Raises("Operands must be two numbers or two strings.")]_vars

\* print "a" + "b"; has printed ab.
C16_Witness ==
    /\ src = "binary_expr" /\ result = "InterpretOk"
    /\ chunk.code = <<OpConstant, 0, OpConstant, 1, OpAdd, OpPrint, OpReturn>>
    /\ Printed = <<StringValue(<<"a", "b">>)>>

NumericOps ==
    {OpSubtract, OpMultiply, OpDivide, OpGreater, OpGreaterEqual, OpLess, OpLessEqual}

\* a op b for two finite numbers, a the left operand.
NumericResult(op, a, b) ==
    CASE op = OpSubtract -> Ratio(a.n * b.d - b.n * a.d, a.d * b.d)
      [] op = OpMultiply -> Ratio(a.n * b.n, a.d * b.d)
      [] op = OpDivide -> Ratio(a.n * b.d, a.d * b.n)
      [] op = OpGreater -> BoolValue(a.n * b.d > b.n * a.d)
      [] op = OpGreaterEqual -> BoolValue(a.n * b.d >= b.n * a.d)
      [] op = OpLess -> BoolValue(a.n * b.d < b.n * a.d)
      [] op = OpLessEqual -> BoolValue(a.n * b.d <= b.n * a.d)

\* C17: subtract, multiply, divide and the four comparisons raise "Operands
\* must be numbers." when either operand is not a Number; otherwise they pop
\* both and push (operand pushed first) op (operand pushed second), the
\* comparisons as a Bool.
C17_NumericOperators ==
    [][\A op \in NumericOps :
          AtInstruction(op) /\ Len(stack) >= 2 =>
              IF OperandA.t = "number" /\ OperandB.t = "number"
              THEN Finite(OperandA) /\ Finite(OperandB) =>
                       Pushes(Below(2), NumericResult(op, OperandA, OperandB))
              ELSE Raises("Operands must be numbers.")]_vars

\* print 1 - 2; has printed -1.
C17_Witness ==
    /\ src = "binary_expr" /\ result = "InterpretOk"
    /\ chunk.code = <<OpConstant, 0, OpConstant, 1, OpSubtract, OpPrint, OpReturn>>
    /\ chunk.constants = <<NumberValue(1), NumberValue(2)>>
    /\ Printed = <<Ratio(-1, 1)>>

\* Equality of two values that are not NaN: the same variant and the same
\* content.
SameValue(a, b) == a.t = b.t /\ a = b

\* C18: OpEqual and OpNotEqual never raise; values of different variants are
\* unequal, values of one variant are equal when their contents are, and
\* OpNotEqual pushes the negation of what OpEqual pushes; a value that is not
\* a Number is equal to itself.
C18_Equality ==
    [][/\ AtInstruction(OpEqual) /\ Len(stack) >= 2 =>
              Pushes(Below(2), BoolValue(SameValue(OperandA, OperandB)))
       /\ AtInstruction(OpNotEqual) /\ Len(stack) >= 2 =>
              Pushes(Below(2), BoolValue(~SameValue(OperandA, OperandB)))]_vars

\* print nil == false; has printed false.
C18_Witness ==
    /\ src = "binary_expr" /\ result = "InterpretOk"
    /\ chunk.code = <<OpNil, OpFalse, OpEqual, OpPrint, OpReturn>>
    /\ Printed = <<BoolValue(FALSE)>>

\* Values of every variant, the number 0 and the empty string among them.
SampleValues ==
    {NilValue, BoolValue(TRUE), BoolValue(FALSE), NumberValue(0), NumberValue(1),
     Ratio(1, 2), Ratio(1, 0), Ratio(0, 0), StringValue(<<>>), StringValue(<<"a">>)}

\* C19: exactly nil and false are falsy: isTruthy is false for them and true
\* for every other value, 0 and the empty string included; OpNot replaces
\* the top of the stack by the Bool negation of its truthiness.
C19_Truthiness ==
    /\ [](\A v \in SampleValues :
              isTruthy(v) <=> v \notin {NilValue, BoolValue(FALSE)})
    /\ [][AtInstruction(OpNot) /\ Len(stack) >= 1 =>
              Pushes(Below(1), BoolValue(OperandB \in {NilValue, BoolValue(FALSE)}))]_vars

\* print !0; has printed false.
C19_Witness ==
    /\ src = "unary_expr" /\ result = "InterpretOk"
    /\ chunk.code = <<OpConstant, 0, OpNot, OpPrint, OpReturn>>
    /\ chunk.constants = <<NumberValue(0)>>
    /\ Printed = <<BoolValue(FALSE)>>


\* The exit status the file at path is to end the process with.
FileExit(path) ==
    IF path \notin DOMAIN Files THEN <<74>>
    ELSE CASE Files[path] = "bad_syntax" -> <<65>>
           [] Files[path] = "rt_error" -> <<70>>
           [] OTHER -> <<0>>

\* C20: with one path argument the process interprets the file and ends with
\* 0, 65 (compile error), 70 (runtime error) or 74 (file not readable); with
\* no argument it is the REPL; with more than one it ends with 64.
C20_ExitCodes ==
    /\ Len(osArgs) = 1 /\ pc \notin {"main", "run"} =>
            pc = "exited" /\ exit = FileExit(osArgs[1])
    /\ Len(osArgs) = 0 /\ pc # "main" => pc \in {"idle", "run"} \/ exit = <<64>>
    /\ Len(osArgs) > 1 /\ pc # "main" => pc = "exited" /\ exit = <<64>>


\* C21: every call of Interpret starts to compile into an empty chunk (no
\* code, no constants of an earlier call) and with an empty stack.
C21_FreshChunkPerCall ==
    [][calls' = calls + 1 => chunk = NewChunk /\ stack = <<>>]_vars


\* The diagnostics the compiler has written.
Diagnostics == compiler.diag

CompilerHasDiag(message) == \E i \in DOMAIN Diagnostics : Diagnostics[i].message = message

\* errorAt called in the present state of the compiler.
ErrorProbe == errorAt(compiler, compiler.current, "probe")

\* The step compiles one declaration that is not a block (a block compiles
\* declarations, and synchronizes, inside the step).
PlainDeclaration ==
    pc = "declaration" /\ compiler.current.tokenType \notin {"TokenLeftBrace", "TokenEOF"}

\* C22: errorAt in panic mode writes nothing and changes nothing; out of panic
\* mode it writes exactly one diagnostic and sets hadError and panicMode. So a
\* declaration writes at most one diagnostic before it is synchronized, a
\* declaration begun in panic mode writes none, and hadError is never cleared.
C22_PanicMode ==
    /\ [](IF compiler.panicMode THEN ErrorProbe = compiler
          ELSE /\ Len(ErrorProbe.diag) = Len(Diagnostics) + 1
               /\ ErrorProbe.diag[Len(ErrorProbe.diag)].message = "probe"
               /\ ErrorProbe = [compiler EXCEPT !.panicMode = TRUE, !.hadError = TRUE,
                                                !.diag = ErrorProbe.diag]
               /\ SubSeq(ErrorProbe.diag, 1, Len(Diagnostics)) = Diagnostics)
    /\ [][/\ compiler.hadError => compiler'.hadError
          /\ Len(compiler'.diag) >= Len(Diagnostics)
          /\ Len(compiler'.diag) > Len(Diagnostics) => compiler'.hadError
          /\ PlainDeclaration \/ pc = "synchronize" =>
                 Len(compiler'.diag) <= Len(Diagnostics) + 1
          /\ PlainDeclaration /\ compiler.panicMode => compiler'.diag = Diagnostics]_vars

C22_Witness ==
    /\ src = "sync_error_token" /\ pc = "declaration"
    /\ compiler.panicMode /\ compiler.hadError
    /\ Len(Diagnostics) = 2
    /\ compiler.current.tokenType = "TokenPrint"


\* C23: when synchronize returns, previous is a semicolon or current begins a
\* statement (or is the end of input), and panic mode is clear, so the first
\* error of the declaration that follows is reported.
C23_SynchronizeClearsPanic ==
    [][pc = "synchronize" /\ pc' = "declaration" =>
           /\ \/ compiler'.previous.tokenType = "TokenSemicolon"
              \/ compiler'.current.tokenType \in SyncTokens \cup {"TokenEOF"}
           /\ ~compiler'.panicMode]_vars


\* The sources whose `=` follows something other than a bare identifier
\* parsed at assignment precedence.
InvalidTargets == {"assign_number", "assign_sum", "assign_grouping"}

\* The one diagnostic of an invalid assignment target: reported at the `=`.
InvalidTargetReported ==
    /\ compiler.hadError
    /\ Len(Diagnostics) = 1
    /\ Diagnostics[1].message = "Invalid assignment target."
    /\ Diagnostics[1].at = "lexeme"
    /\ Diagnostics[1].lexeme = <<"=">>

Emitted(code) == ~compiler.hadError /\ Diagnostics = <<>> /\ compiler.chunk.code = code

\* C25: an `=` after anything but a bare identifier parsed at assignment
\* precedence is reported as "Invalid assignment target."; `name = expr`
\* compiles to the value followed by a set instruction, without that error.
C25_AssignmentTarget ==
    pc = "compiled" =>
        /\ src \in InvalidTargets => InvalidTargetReported
        /\ src \notin InvalidTargets => ~CompilerHasDiag("Invalid assignment target.")
        /\ src = "assign_global" =>
               Emitted(<<OpConstant, 1, OpSetGlobal, 0, OpPop, OpReturn>>)
        /\ src = "assign_chain" =>
               Emitted(<<OpConstant, 2, OpSetGlobal, 1, OpSetGlobal, 0, OpPop, OpReturn>>)
        /\ src = "assign_local" =>
               Emitted(<<OpNil, OpConstant, 0, OpSetLocal, 0, OpPop, OpPop, OpReturn>>)

C25_Witness ==
    /\ pc = "compiled" /\ src = "assign_sum"
    /\ InvalidTargetReported
    /\ compiler.chunk.code = <<OpGetGlobal, 0, OpGetGlobal, 1, OpAdd, OpPop, OpReturn>>


\* C30: scanToken never reads outside the source, whatever the source ends
\* with: no scan of any compiled source stops in an out-of-range read, and a
\* digit run followed by a `.` that no digit follows is a number and then the
\* `.`, reported by the parser as a missing `;`.
C30_ScannerInBounds ==
    /\ ~compiler.scanner.crash
    /\ pc # "crashed"
    /\ pc = "compiled" /\ src \in {"number_dot", "trailing_dot"} =>
           /\ compiler.chunk.constants = <<NumberValue(1)>>
           /\ Len(Diagnostics) = 1
           /\ Diagnostics[1].message = "Expect ';' after value."


\* n times OP_POP.
Pops(n) == [i \in 1..n |-> OpPop]

\* The step is an endScope.
ClosesScope == pc = "declaration" /\ check(compiler, "TokenRightBrace")

\* C24: endScope emits exactly one OP_POP per local it removes, and it
\* removes exactly the locals of the scope it closes (those deeper than the
\* new scope depth): the locals of the enclosing scopes stay as they are.
C24_EndScopePops ==
    [][ClosesScope =>
           LET depth == compiler.scopeDepth - 1
               kept == Len(compiler'.locals)
           IN  /\ compiler'.scopeDepth = depth
               /\ kept <= Len(compiler.locals)
               /\ compiler'.locals = SubSeq(compiler.locals, 1, kept)
               /\ \A i \in 1..kept : compiler.locals[i].depth <= depth
               /\ \A i \in kept + 1..Len(compiler.locals) :
                      compiler.locals[i].depth = compiler.scopeDepth
               /\ compiler'.chunk.code =
                      compiler.chunk.code \o Pops(Len(compiler.locals) - kept)]_vars

\* `{ var a; { var b; } }` after its inner block: b is gone with its OP_POP
\* and the outer a remains.
C24_Witness ==
    /\ src = <<"open", "var_a", "open", "var_b", "close", "close">>
    /\ pc = "declaration"
    /\ check(compiler, "TokenRightBrace")
    /\ compiler.scopeDepth = 1
    /\ Len(compiler.locals) = 1
    /\ compiler.locals[1].name.lexeme = <<"a">>
    /\ compiler.chunk.code = <<OpNil, OpNil, OpPop>>


\* The slot operand of the instruction run is about to execute.
SlotOperand == chunk.code[ip + 2]

Top == stack[Len(stack)]

\* The iteration raises nothing and goes on to the next instruction.
GoesOn == result' = "None" /\ pc' = "run" /\ stderr' = stderr

\* C26: OpSetLocal and an OpSetGlobal of a defined name store the top of the
\* stack into the slot or the global and change nothing else: the stack keeps
\* its height and the assigned value stays on top, so that an assignment
\* yields the value it assigned and an assignment statement, with the OpPop
\* after it, leaves the stack as it found it.
C26_SetKeepsValue ==
    /\ [][/\ AtInstruction(OpSetLocal) =>
                 /\ GoesOn
                 /\ stack' = [stack EXCEPT ![SlotOperand + 1] = Top]
                 /\ globals' = globals
                 /\ ip' = ip + 2
          /\ AtInstruction(OpSetGlobal) /\ NameOperand \in DOMAIN globals =>
                 /\ GoesOn
                 /\ stack' = stack
                 /\ globals' = [globals EXCEPT ![NameOperand] = Top]
                 /\ ip' = ip + 2]_vars
    /\ [](src = "assign_expr" /\ calls = 1 /\ pc = "idle" =>
              /\ result = "InterpretOk"
              /\ Printed = <<NumberValue(2), NumberValue(2)>>
              /\ stack = <<>>
              /\ globals = [n \in {NameA} |-> NumberValue(2)])

\* `print b = a;` of assign_expr after its OpSetLocal: the local b in slot 0
\* and the value on top of it are both the 2 assigned.
C26_Witness ==
    /\ src = "assign_expr" /\ calls = 1
    /\ AtInstruction(OpPrint)
    /\ ip >= 2 /\ chunk.code[ip - 1] = OpSetLocal /\ chunk.code[ip] = 0
    /\ stack = <<NumberValue(2), NumberValue(2)>>


\* The precedence ladder: equality, comparison, term, factor.
Level(op) ==
    CASE op \in {<<"=", "=">>, <<"!", "=">>} -> 1
      [] op \in {<<">">>, <<">", "=">>, <<"<">>, <<"<", "=">>} -> 2
      [] op \in {<<"+">>, <<"-">>} -> 3
      [] op \in {<<"*">>, <<"/">>} -> 4

\* The instruction of a binary operator.
Instruction(op) ==
    CASE op = <<"+">> -> OpAdd
      [] op = <<"-">> -> OpSubtract
      [] op = <<"*">> -> OpMultiply
      [] op = <<"/">> -> OpDivide
      [] op = <<"=", "=">> -> OpEqual
      [] op = <<"!", "=">> -> OpNotEqual
      [] op = <<">">> -> OpGreater
      [] op = <<">", "=">> -> OpGreaterEqual
      [] op = <<"<">> -> OpLess
      [] op = <<"<", "=">> -> OpLessEqual

\* The postfix form of (a op1 b) op2 c and of a op1 (b op2 c).
PostfixLeft(a, op1, b, op2, c) == a \o b \o <<Instruction(op1)>> \o c \o <<Instruction(op2)>>

PostfixRight(a, op1, b, op2, c) == a \o b \o c \o <<Instruction(op2), Instruction(op1)>>

\* The postfix form of a op1 b op2 c: the operator higher on the ladder binds
\* first, and the left one of two of the same level.
Postfix(a, op1, b, op2, c) ==
    IF Level(op2) > Level(op1) THEN PostfixRight(a, op1, b, op2, c)
    ELSE PostfixLeft(a, op1, b, op2, c)

\* The instructions that push the n-th literal of the line.
Literal(n) == <<OpConstant, n - 1>>

PostfixOf(shape, op1, op2) ==
    CASE shape = "flat" -> Postfix(Literal(1), op1, Literal(2), op2, Literal(3))
      [] shape = "left" -> PostfixLeft(Literal(1), op1, Literal(2), op2, Literal(3))
      [] shape = "right" -> PostfixRight(Literal(1), op1, Literal(2), op2, Literal(3))
      [] shape = "negated" ->
            Postfix(Literal(1) \o <<OpNegate>>, op1, Literal(2), op2, Literal(3))
      [] shape = "not_second" ->
            Postfix(Literal(1), op1, Literal(2) \o <<OpNot>>, op2, Literal(3))
      [] shape = "negated_third" ->
            Postfix(Literal(1), op1, Literal(2), op2, Literal(3) \o <<OpNegate>>)

\* C27: the instructions emitted for an expression are its postfix form under
\* the ladder Equality < Comparison < Term < Factor < Unary, operators of one
\* level associating to the left; so `1 + 2 * 3` prints 7 and `1 - 2 - 3`
\* prints -4.  (A runtime error of the expression renews the chunk.)
C27_PostfixOrder ==
    calls = 1 =>
        /\ ~compiled.hadError
        /\ pc = "run" \/ result = "InterpretOk" =>
               /\ chunk.code = PostfixOf(src[1], src[2], src[3]) \o <<OpPrint, OpReturn>>
               /\ chunk.constants = <<NumberValue(1), NumberValue(2), NumberValue(3)>>
        /\ pc = "idle" /\ src = <<"flat", <<"+">>, <<"*">>>> =>
               result = "InterpretOk" /\ Printed = <<NumberValue(7)>>
        /\ pc = "idle" /\ src = <<"flat", <<"-">>, <<"-">>>> =>
               result = "InterpretOk" /\ Printed = <<NumberValue(-4)>>

C27_Witness ==
    /\ calls = 1 /\ pc = "idle"
    /\ src = <<"negated", <<"-">>, <<"-">>>>
    /\ chunk.code = <<OpConstant, 0, OpNegate, OpConstant, 1, OpSubtract,
                      OpConstant, 2, OpSubtract, OpPrint, OpReturn>>
    /\ Printed = <<NumberValue(-6)>>


\* The 16-bit operand of the jump run is about to execute, high byte first.
JumpOperand == chunk.code[ip + 2] * ByteRange + chunk.code[ip + 3]

\* nil and false are the falsy values.
Falsy(v) == v = NilValue \/ v = BoolValue(FALSE)

\* The iteration changes ip by delta, counted from behind the operand, and
\* nothing else of the Vm.
Jumps(delta) ==
    /\ GoesOn
    /\ ip' = ip + 3 + delta
    /\ stack' = stack
    /\ globals' = globals
    /\ chunk' = chunk

\* C28: OpJumpIfFalse reads a big-endian 16-bit operand and adds it to ip, which
\* is behind the operand by then, if and only if the top of the stack is
\* falsy; OpJump always adds its operand and OpLoop always subtracts it.  None
\* of the three changes the stack.
C28_Jumps ==
    [][/\ AtInstruction(OpJumpIfFalse) => Jumps(IF Falsy(Top) THEN JumpOperand ELSE 0)
       /\ AtInstruction(OpJump) => Jumps(JumpOperand)
       /\ AtInstruction(OpLoop) => Jumps(0 - JumpOperand)]_vars

\* After OpNil and an OpJumpIfFalse of operand bytes 1, 4: 260 bytes further.
C28_Witness ==
    /\ SubSeq(chunk.code, 1, 4) = <<OpNil, OpJumpIfFalse, 1, 4>>
    /\ ip = 4 + 260
    /\ stack = <<NilValue>>
    /\ pc = "run"


\* The instructions whose operand byte is an index into the constants.
ConstantInstructions == {OpConstant, OpDefineGlobal, OpGetGlobal, OpSetGlobal}

\* The instructions whose operand byte is a stack slot.
SlotInstructions == {OpGetLocal, OpSetLocal}

\* C29: whatever Interpret calls were made on the Vm, with sources that
\* compile or not, the byte run reads next is inside the code of the chunk:
\* the instruction at 0 <= ip < len(code), its operand byte too, and an
\* operand that names a constant is an index of the constant pool.
C29_ReadsInBounds ==
    pc = "run" =>
        /\ ip >= 0 /\ ip < Len(chunk.code)
        /\ chunk.code[ip + 1] \in ConstantInstructions \cup SlotInstructions =>
               ip + 1 < Len(chunk.code)
        /\ chunk.code[ip + 1] \in ConstantInstructions =>
               chunk.code[ip + 2] < Len(chunk.constants)

\* The second call on `print 1 + 2 * 3;` twice, at the OpConstant of its 3:
\* behind the code of the first call, with the sixth constant.
C29_Witness ==
    /\ calls = 2 /\ src = "arith"
    /\ AtInstruction(OpConstant)
    /\ ip = 14
    /\ chunk.code[ip + 2] = 5
    /\ Len(chunk.constants) = 6
    /\ Len(chunk.code) = 20


\* C34: OpGetGlobal on a name without a binding raises the runtime error
\* "Undefined variable '<name>'.", pushes nothing and leaves the globals as
\* they are; on a bound name it pushes the value bound and raises nothing.
C34_GetGlobal ==
    [][AtInstruction(OpGetGlobal) =>
           /\ globals' = globals
           /\ IF NameOperand \in DOMAIN globals
              THEN /\ GoesOn
                   /\ stack' = Append(stack, globals[NameOperand])
                   /\ ip' = ip + 2
              ELSE /\ result' = "InterpretRuntimeError"
                   /\ stderr' = Append(stderr, [kind |-> "runtime_error",
                                                message |-> "Undefined variable '%s'.",
                                                args |-> <<NameOperand>>])
                   /\ stack' = <<>>]_vars

\* print a; on a new Vm: the error names a and nothing is bound.
C34_Witness ==
    /\ src = "read" /\ calls = 1
    /\ result = "InterpretRuntimeError"
    /\ stderr = <<[kind |-> "runtime_error", message |-> "Undefined variable '%s'.",
                   args |-> <<NameA>>]>>
    /\ globals = <<>>
    /\ Printed = <<>>


\* C31: when OpGetLocal k or OpSetLocal k executes, k is the index the variable
\* has in the compiler's list of locals and a slot of the stack, and that
\* slot holds the variable: in a block of n locals whose last one is
\* initialized to 1, printed, assigned 2 and printed again, k is n - 1 and
\* the lines printed are 1 and 2, however many locals the block has.
C31_LocalSlots ==
    /\ AtInstruction(OpGetLocal) \/ AtInstruction(OpSetLocal) =>
           SlotOperand = src - 1 /\ SlotOperand < Len(stack)
    /\ pc = "idle" /\ calls = 1 =>
           result = "InterpretOk" /\ Printed = <<NumberValue(1), NumberValue(2)>>


\* The code the chunk held before the step is the beginning of its code after.
KeepsCode == SubSeq(chunk'.code, 1, Len(chunk.code)) = chunk.code

\* C32: a call executes only the instructions of its own source.  It enters
\* run behind everything the chunk held before (the code of the earlier
\* successful calls), run only moves forward from there, and a call whose
\* source is rejected leaves a chunk without any code to a later call.
C32_OwnInstructions ==
    [][/\ calls' = calls + 1 /\ pc' = "run" =>
              /\ ip' = Len(chunk.code)
              /\ KeepsCode
              /\ Len(chunk'.code) = compiled'.code
       /\ pc = "run" /\ pc' = "run" => ip' > ip /\ chunk' = chunk
       /\ pc = "run" /\ result' = "InterpretOk" => ip' = Len(chunk'.code) /\ chunk' = chunk
       /\ result' \in ErrorResults => chunk' = NewChunk /\ ip' = 0]_vars

\* The second of two successful calls, in run at its first instruction, behind
\* the ten bytes of the first.
C32_Witness ==
    /\ calls = 2 /\ pc = "run"
    /\ src = "define"
    /\ ip = 10
    /\ Len(chunk.code) > 10
    /\ SubSeq(chunk.code, 1, 10) =
           <<OpConstant, 0, OpConstant, 1, OpConstant, 2, OpMultiply, OpAdd, OpPrint,
             OpReturn>>


\* The tokens the scanner has handed out lie before this place of the source.
Scanned == compiler.scanner.current

AtEnd == compiler.current.tokenType = "TokenEOF"

\* The outcomes of Interpret.
Outcomes == {"InterpretOk", "InterpretCompileError", "InterpretRuntimeError"}

\* C33: every Interpret call on a finite source returns, with one of
\* InterpretOk, InterpretCompileError and InterpretRuntimeError.  Each turn of
\* the loop of compile consumes a token unless the end of the source is
\* reached, synchronize never goes back and stops where it stands only at a
\* `;` behind it or a statement keyword before it; no step ends the call in
\* another way than a return, and run reaches OpReturn or a runtime error.
C33_Terminates ==
    /\ [][/\ ~AtEnd /\ pc = "declaration" =>
                 \/ compiler'.scanner.current > Scanned
                 \/ compiler'.current.tokenType = "TokenEOF"
          /\ ~AtEnd /\ pc = "synchronize" =>
                 \/ compiler'.scanner.current > Scanned
                 \/ compiler'.current.tokenType = "TokenEOF"
                 \/ compiler.previous.tokenType = "TokenSemicolon"
                 \/ compiler.current.tokenType \in SyncTokens]_vars
    /\ [](pc # "crashed")
    /\ [](pc = "idle" /\ calls = 1 => result \in Outcomes)
    /\ (pc = "run") ~> (pc = "idle" /\ result \in {"InterpretOk", "InterpretRuntimeError"})


\* compile from one statement boundary to the next: into a block, out of a
\* block, or over a declaration that is not a block.
BoundaryStep(c) ==
    CASE check(c, "TokenLeftBrace") -> beginScope(advance(c))
      [] check(c, "TokenRightBrace") /\ c.scopeDepth > 0 ->
            endScope(consume(c, "TokenRightBrace", "Expect '}' after block."))
      [] OTHER -> declaration(c)

\* The statement boundaries from c on: the length of the code emitted before
\* the boundary and the number of locals in scope at it.
RECURSIVE Boundaries(_)
Boundaries(c) ==
    {<<Len(c.chunk.code), Len(c.locals)>>}
        \cup IF check(c, "TokenEOF") \/ c.hadError \/ c.crash THEN {}
             ELSE Boundaries(BoundaryStep(c))

StatementBoundaries(source) == Boundaries(advance(NewCompiler(source, NewChunk)))

\* The code of the source ends with its OpReturn, one byte behind the last
\* boundary; run is at the boundary b when it is as far from the end of the
\* chunk as b is from the end of that code.
AtBoundary(b, last) == Len(chunk.code) - ip = last + 1 - b[1]

LastBoundary(B) == CHOOSE n \in {b[1] : b \in B} : \A b \in B : b[1] <= n

HeightsAt(B, last) == \A b \in B : AtBoundary(b, last) => Len(stack) = b[2]

\* C35: in a program compiled without error no instruction pops or peeks below
\* the bottom of the stack; whenever run stands between two statements the
\* height of the stack is the number of locals in scope there, and the stack
\* is empty when OpReturn executes.
C35_StackDiscipline ==
    /\ pc # "crashed"
    /\ AtInstruction(OpReturn) => stack = <<>>
    /\ pc = "run" =>
           HeightsAt(StatementBoundaries(Sources[src]),
                     LastBoundary(StatementBoundaries(Sources[src])))

\* use_after_decl in its inner block, before `print a + b;`: two locals in
\* scope, two values on the stack.
C35_Witness ==
    /\ src = "use_after_decl" /\ calls = 1 /\ pc = "run"
    /\ <<ip, 2>> \in StatementBoundaries(Sources[src])
    /\ Len(stack) = 2
    /\ AtInstruction(OpGetLocal)

====
